---- MODULE Spec2Model ----
(***************************************************************************)
(* Model of the note-transcription driver of GuitarHelio:                  *)
(*   BasicPitchCNN   (ring buffers, frameInference, reset)                 *)
(*   BasicPitch      (reset, transcribeToMIDI: the four-phase schedule)    *)
(*   NeuralNoteTranscriber::transcribe                                     *)
(* and of the hosts that call it (a library caller that reuses one         *)
(* instance, the notes CLI, the JNI host binding).                         *)
(*                                                                         *)
(* Arrays of floats are abstract values ("tokens"): a token names the      *)
(* network that produced it and the sequence of inputs that network has    *)
(* been fed since its last reset, so that two arrays are equal in the      *)
(* model exactly when the deterministic networks would produce them from   *)
(* the same history.                                                       *)
(***************************************************************************)
EXTENDS Integers, Sequences, FiniteSets, TLC

\* ------------------------------------------------------------------------
\* Bounds of the model
\* ------------------------------------------------------------------------
\* Largest number of frames the feature extractor returns.
MaxFrames == 4
\* Number of transcribe() calls the library caller makes on one instance.
MaxRuns == 2
\* Total lookahead L and the three ring depths.  They are static constants of
\* BasicPitchCNN.h; frameInference and transcribeToMIDI are written for any
\* positive values, and the model is checked for the small ones below.
mTotalLookahead == 2
mNumContourStored == 3
mNumNoteStored == 2
mNumConcat2Stored == 3

\* ------------------------------------------------------------------------
\* Program constants
\* ------------------------------------------------------------------------
NUM_FREQ_IN == 264
NUM_FREQ_OUT == 88

\* ------------------------------------------------------------------------
\* Array values
\* ------------------------------------------------------------------------
Tok(net, k, ins) == [net |-> net, k |-> k, ins |-> ins]
\* an array filled with 0.0f (array.fill(0.0f), zeroStackedCqt, a resized row)
ZeroVec == Tok("zero", 0, <<>>)
\* frame i of the tensor returned by Features::computeFeatures
CqtFrame(i) == Tok("cqt", i, <<>>)
\* what a read past the end of the feature tensor yields, when it yields
Garbage == Tok("garbage", 0, <<>>)
\* a read past the end of the feature tensor that faults instead
ReadFault == Tok("fault", 0, <<>>)
\* output of sub-network `net` after the forward() calls fed `hist` since reset
Forward(net, hist) == Tok(net, 0, hist)

\* A posteriorgram row: std::vector<float> of w floats holding v.
Row(w, v) == [w |-> w, v |-> v]

\* ------------------------------------------------------------------------
\* BasicPitchCNN
\* ------------------------------------------------------------------------
_wrapIndex(inIndex, inSize) ==
    LET wrappedIndex == IF inIndex >= 0 THEN inIndex % inSize
                        ELSE -((-inIndex) % inSize)
    IN IF wrappedIndex < 0 THEN wrappedIndex + inSize ELSE wrappedIndex

\* A freshly constructed BasicPitchCNN: every member array value-initialised.
CnnConstructed ==
    [mContoursCircularBuffer |-> [i \in 0..(mNumContourStored - 1) |-> ZeroVec],
     mNotesCircularBuffer    |-> [i \in 0..(mNumNoteStored - 1) |-> ZeroVec],
     mConcat2CircularBuffer  |-> [i \in 0..(mNumConcat2Stored - 1) |-> ZeroVec],
     mCNNContour     |-> <<>>,
     mCNNNote        |-> <<>>,
     mCNNOnsetInput  |-> <<>>,
     mCNNOnsetOutput |-> <<>>,
     mNoteIdx    |-> 0,
     mContourIdx |-> 0,
     mConcat2Idx |-> 0,
     mInputArray  |-> ZeroVec,
     mConcatArray |-> ZeroVec]

\* Mutant: reset() forgets the note head.
CnnReset_KeepsNoteHead(c) ==
    [CnnConstructed EXCEPT !.mConcatArray = c.mConcatArray, !.mNoteIdx = c.mNoteIdx]

\* reset(): zeroes the three rings, the sub-networks' state, the heads and
\* the input array; mConcatArray is not touched.
CnnReset(c) == [CnnConstructed EXCEPT !.mConcatArray = c.mConcatArray]

\* _concat(): note output of this frame, then the delayed onset-input feature.
Concat(c) ==
    [c EXCEPT !.mConcatArray =
        Tok("concat", 0, <<Forward("note", c.mCNNNote),
                           c.mConcat2CircularBuffer[_wrapIndex(c.mConcat2Idx + 1,
                                                               mNumConcat2Stored)]>>)]

\* The steps of _runModels(): a forward pass, then the copy of getOutputs().
OnsetInputStep(c) ==
    [c EXCEPT !.mCNNOnsetInput = Append(@, c.mInputArray),
              !.mConcat2CircularBuffer[c.mConcat2Idx] =
                  Forward("onset_input", Append(c.mCNNOnsetInput, c.mInputArray))]
ContourStep(c) ==
    [c EXCEPT !.mCNNContour = Append(@, c.mInputArray),
              !.mContoursCircularBuffer[c.mContourIdx] =
                  Forward("contour", Append(c.mCNNContour, c.mInputArray))]
NoteStep(c) ==
    [c EXCEPT !.mCNNNote = Append(@, Forward("contour", c.mCNNContour)),
              !.mNotesCircularBuffer[c.mNoteIdx] =
                  Forward("note", Append(c.mCNNNote, Forward("contour", c.mCNNContour)))]
OnsetOutputStep(c) == [c EXCEPT !.mCNNOnsetOutput = Append(@, c.mConcatArray)]

\* _runModels(): the four forward passes and the three ring writes.
RunModels(c) == OnsetOutputStep(Concat(NoteStep(ContourStep(OnsetInputStep(c)))))

\* Mutant: the head stays on the last slot.
AdvanceHead_Saturates(idx, stored) == IF idx = stored - 1 THEN idx ELSE idx + 1

\* Mutant: the head wraps one slot early.
AdvanceHead_WrapsEarly(idx, stored) == IF idx >= stored - 2 THEN 0 ELSE idx + 1

AdvanceHead(idx, stored) == IF idx = stored - 1 THEN 0 ELSE idx + 1

\* Mutant: only the contour row is checked.
OutputSizesOk_ContoursOnly(wContours, wNotes, wOnsets) ==
    wContours = NUM_FREQ_IN

\* The output-size check that opens frameInference.
OutputSizesOk(wContours, wNotes, wOnsets) ==
    wContours = NUM_FREQ_IN /\ wNotes = NUM_FREQ_OUT /\ wOnsets = NUM_FREQ_OUT

\* The rest of frameInference once _runModels() has run on c: the three
\* output copies and the advance of the heads.
CopyOutputs(c) ==
    [thrown |-> FALSE,
     outOnsets   |-> Forward("onset_output", c.mCNNOnsetOutput),
     outNotes    |-> c.mNotesCircularBuffer[_wrapIndex(c.mNoteIdx + 1, mNumNoteStored)],
     outContours |-> c.mContoursCircularBuffer[_wrapIndex(c.mContourIdx + 1, mNumContourStored)],
     cnn |-> [c EXCEPT !.mContourIdx = AdvanceHead(c.mContourIdx, mNumContourStored),
                       !.mNoteIdx    = AdvanceHead(c.mNoteIdx, mNumNoteStored),
                       !.mConcat2Idx = AdvanceHead(c.mConcat2Idx, mNumConcat2Stored)]]

\* Mutant: the input is copied into mInputArray before the size check.
frameInference_CopiesFirst(c, inData, wContours, wNotes, wOnsets) ==
    IF ~OutputSizesOk(wContours, wNotes, wOnsets)
    THEN [thrown |-> TRUE, cnn |-> [c EXCEPT !.mInputArray = inData],
          outContours |-> ZeroVec, outNotes |-> ZeroVec, outOnsets |-> ZeroVec]
    ELSE CopyOutputs(RunModels([c EXCEPT !.mInputArray = inData]))

\* frameInference(inData, outContours, outNotes, outOnsets), given the widths
\* of the three output rows.  thrown = TRUE is the std::runtime_error.
frameInference(c, inData, wContours, wNotes, wOnsets) ==
    IF ~OutputSizesOk(wContours, wNotes, wOnsets)
    THEN [thrown |-> TRUE, cnn |-> c,
          outContours |-> ZeroVec, outNotes |-> ZeroVec, outOnsets |-> ZeroVec]
    ELSE CopyOutputs(RunModels([c EXCEPT !.mInputArray = inData]))

\* ------------------------------------------------------------------------
\* State
\* ------------------------------------------------------------------------
VARIABLES
    host,          \* who drives the transcriber: "lib", "cli" or "jni"
    pc,            \* position of the single thread of control
    idx,           \* loop variable (i / frameIdx) of the running phase
    audio,         \* the audio handed to transcribe()
    cnn,           \* BasicPitch::mBasicPitchCNN
    mContoursPG,   \* BasicPitch posteriorgrams: sequences of rows
    mNotesPG,
    mOnsetsPG,
    mNoteEvents,   \* BasicPitch::mNoteEvents
    mNumFrames,    \* BasicPitch::mNumFrames
    result,        \* how the last transcribe() ended:
                   \*   "none", "returned", "thrown", "crashed"
    what,          \* e.what() of the exception in flight, "" when none
    retEvents,     \* the events transcribe() returned to its caller
    corrupt,       \* a write through a dangling row reference has happened
    runs,          \* transcribe() calls made so far on this instance
    calls,         \* history: the frameInference calls of the running transcription
    args,          \* the host's arguments (CLI: parsed map, JNI: the five paths)
    presetValues,  \* CLI: the NeuralNoteBalancedPreset after the overrides
    exitCode,      \* CLI: value returned by main, -1 while it runs
    stderr,        \* CLI: the line written to std::cerr, "" when none
    status,        \* JNI: the returned string, "null" for nullptr, "" while running
    outFile,       \* the output JSON file: "untouched", "opened", "written"
    pcmRead,       \* number of PCM files the host has tried to read
    modelLoaded,   \* a NeuralNoteTranscriber constructor has been entered
    tempoResult,   \* how the tempo pipeline ended: "none", "returned", "thrown"
    inputFile,     \* the PCM file the CLI was pointed at, NoFile before it is opened
    tempo,         \* the tempo pipeline: the locals of TempoCnn::estimate and its caller
    probe,         \* a helper function applied on its own: its input and its output
    diag           \* NeuralNoteDiag: the environment flag, the cached flag, lines written

hostvars == <<args, presetValues, exitCode, stderr, status, outFile, pcmRead,
              modelLoaded, tempoResult, inputFile, tempo, probe>>

vars == <<host, pc, idx, audio, cnn, mContoursPG, mNotesPG, mOnsetsPG, mNoteEvents,
          mNumFrames, result, what, retEvents, corrupt, runs, calls, hostvars, diag>>

\* ------------------------------------------------------------------------
\* NeuralNoteDiag
\* ------------------------------------------------------------------------
\* enabled(): the function-local static is initialised from the environment
\* by the first call and returned by every later one.
DiagEnabled == IF diag.cache = "unread" THEN diag.env ELSE diag.cache = "on"

\* n calls of emit(): each asks enabled() and writes one line when it is set.
Emit(n) ==
    IF n = 0 THEN UNCHANGED diag
    ELSE diag' = [diag EXCEPT !.cache = IF DiagEnabled THEN "on" ELSE "off",
                              !.lines = IF DiagEnabled THEN @ + n ELSE @]

\* Mutant: the heartbeat moves the caller's frame index when it prints.
emitFrameHeartbeat_Advances(flag, frameIdx) == IF flag THEN frameIdx + 1 ELSE frameIdx

\* emitFrameHeartbeat(event, frameIdx, totalFrames, ...) as the caller sees it
\* when enabled() is `flag`: its arguments are passed by value, so the
\* caller's frame index is what it was.
emitFrameHeartbeat(flag, frameIdx) == frameIdx

\* computeHeartbeatEvery(totalFrames)
computeHeartbeatEvery(totalFrames) ==
    IF totalFrames <= 120 THEN 8
    ELSE IF totalFrames <= 600 THEN 20
    ELSE IF totalFrames \div 24 > 30 THEN totalFrames \div 24 ELSE 30

\* The condition under which an iteration of a loop of transcribeToMIDI
\* calls emitFrameHeartbeat before and after frameInference.
HeartbeatDue(phase, i) ==
    CASE phase \in {"warmup_zero", "warmup_cqt"} -> i = 0 \/ i + 1 = mTotalLookahead
      [] phase = "stream_inference" ->
            \/ i - mTotalLookahead + 1 = 1
            \/ i - mTotalLookahead + 1 = mNumFrames - mTotalLookahead
            \/ (i - mTotalLookahead + 1) % computeHeartbeatEvery(mNumFrames) = 0
      [] phase = "tail_flush" ->
            i - mNumFrames + 1 = 1 \/ i - mNumFrames + 1 = mTotalLookahead

\* The loop's frame index when the iteration's body is over.
FrameAfterBody(flag, phase, i) ==
    IF HeartbeatDue(phase, i) THEN emitFrameHeartbeat(flag, i) ELSE i

\* The position of a phase in transcribeToMIDI, and the emit() calls between
\* the end of one loop and the start of the code at `next`: a "done" and a
\* "start" marker for every loop boundary crossed.
PhaseRank(phase) ==
    CASE phase = "warmup_zero" -> 0
      [] phase = "warmup_cqt" -> 1
      [] phase = "stream_inference" -> 2
      [] phase = "tail_flush" -> 3
      [] OTHER -> 4
Markers(phase, next) == 2 * (PhaseRank(next[1]) - PhaseRank(phase))

\* ------------------------------------------------------------------------
\* Inputs
\* ------------------------------------------------------------------------
\* An audio buffer: its sample count, the number of frames the features model
\* yields for it (-1: the features session throws or returns a wrong shape),
\* and whether the note converter finds any event in its posteriorgrams.
Audio(n, f, b) == [samples |-> n, frames |-> f, notes |-> b]
EmptyAudio == Audio(0, 0, FALSE)
AudiosOf(n) ==
    {Audio(n, f, b) : f \in -1..MaxFrames, b \in BOOLEAN} \ {Audio(n, f, TRUE) : f \in -1..0}
Audios == {EmptyAudio} \cup AudiosOf(1)

\* ------------------------------------------------------------------------
\* Exception messages
\* ------------------------------------------------------------------------
EmptyAudioMsg == "Input audio is empty"
FeaturesMsg == "Unexpected ONNX features output shape"
OutputSizeMsg == "Invalid output buffer size in frameInference"

\* ------------------------------------------------------------------------
\* size_t arithmetic.  The model keeps a narrow modulus in place of 2^64: an
\* index that has wrapped is far outside every vector either way.
\* ------------------------------------------------------------------------
SizeModulus == 1048576
\* The helper functions applied on their own: mel bands, frames, window
\* widths and hops of the tensors cut into windows.
MelBands == 2
MaxT == 4
MaxW == 3
MaxHop == 2
\* The longest bpm series compressed on its own.
MaxPoints == 3
\* The longest vector of posteriors interpolated on its own.
MaxValues == 3
\* The longest series smoothed on its own.
MaxSeries == 5
\* Mutant: the row index is one too high.
SizeSub_OffByOne(a, b) == (a - b + 1) % SizeModulus

SizeSub(a, b) == (a - b) % SizeModulus

\* ------------------------------------------------------------------------
\* BasicPitch
\* ------------------------------------------------------------------------
\* std::vector::resize(n, row): keeps the first rows, appends copies of row.
Resize(pg, n, row) == [i \in 1..n |-> IF i <= Len(pg) THEN pg[i] ELSE row]

\* Notes::convert: a deterministic function of the three posteriorgrams.
Convert(notesPG, onsetsPG, contoursPG, hasNotes) ==
    IF hasNotes /\ Len(notesPG) > 0
    THEN <<[notes |-> notesPG, onsets |-> onsetsPG, contours |-> contoursPG]>>
    ELSE <<>>

\* Where control goes when a loop of transcribeToMIDI is reached: the first
\* loop, from that one on, whose condition holds on entry.
\* Mutant: the tail flush starts one frame early.
EnterTail_Early(n) ==
    IF n < n + mTotalLookahead THEN <<"tail_flush", n - 1>> ELSE <<"notes_convert", 0>>

EnterTail(n) ==
    IF n < n + mTotalLookahead THEN <<"tail_flush", n>> ELSE <<"notes_convert", 0>>
EnterStream(n) ==
    IF mTotalLookahead < n THEN <<"stream_inference", mTotalLookahead>> ELSE EnterTail(n)
\* Mutant: the CQT warmup is skipped.
EnterWarmupCqt_Skipped(n) == EnterStream(n)

EnterWarmupCqt(n) ==
    IF 0 < mTotalLookahead THEN <<"warmup_cqt", 0>> ELSE EnterStream(n)
EnterWarmupZero(n) ==
    IF 0 < mTotalLookahead THEN <<"warmup_zero", 0>> ELSE EnterWarmupCqt(n)

\* The three rows an index designates exist only inside the vectors.
RowExists(r) == r >= 0 /\ r < Len(mContoursPG)

\* What the three references mContoursPG[r], mNotesPG[r], mOnsetsPG[r] present
\* to frameInference.  Inside the vectors: the rows.  Outside: memory the
\* program does not own, where the access faults or finds any sizes at all.
WildWidths == {0, NUM_FREQ_OUT, NUM_FREQ_IN}
RowsAt(r) ==
    IF RowExists(r)
    THEN {[fault |-> FALSE, wC |-> mContoursPG[r + 1].w, wN |-> mNotesPG[r + 1].w,
           wO |-> mOnsetsPG[r + 1].w]}
    ELSE {[fault |-> TRUE, wC |-> 0, wN |-> 0, wO |-> 0]}
         \cup {[fault |-> FALSE, wC |-> a, wN |-> b, wO |-> c] :
                  a \in WildWidths, b \in WildWidths, c \in WildWidths}

\* The values the copy from stackedCqt + f * NUM_HARMONICS * NUM_FREQ_IN can
\* read: the frame, or past the end of the tensor garbage or a fault.
CqtRead(f) == IF f < mNumFrames THEN {CqtFrame(f)} ELSE {Garbage, ReadFault}

\* The transcription ends in an exception that leaves transcribeToMIDI and
\* transcribe (neither catches).
Thrown(msg) ==
    /\ pc' = "after"
    /\ result' = "thrown"
    /\ what' = msg
    /\ retEvents' = <<>>

\* The process dies on a fault.
Crashed ==
    /\ pc' = "crashed"
    /\ result' = "crashed"
    /\ UNCHANGED <<what, retEvents>>

\* One loop iteration: frameInference(inData, mContoursPG[r], mNotesPG[r],
\* mOnsetsPG[r]) and the loop increment, `next` being the position after it.
\* src is the frame index fed (-1 for zeroStackedCqt), reads the values the
\* input copy can yield.
InferStep(phase, src, reads, r, next) ==
    \E rows \in RowsAt(r), inData \in reads :
        \E o \in {frameInference(cnn, inData, rows.wC, rows.wN, rows.wO)} :
           IF rows.fault \/ (~o.thrown /\ inData = ReadFault)
           THEN /\ Crashed
                /\ Emit(IF HeartbeatDue(phase, idx) THEN 1 ELSE 0)
                /\ UNCHANGED <<idx, cnn, mContoursPG, mNotesPG, mOnsetsPG, corrupt, calls>>
           ELSE IF o.thrown
           THEN /\ Thrown(OutputSizeMsg)
                /\ Emit(IF HeartbeatDue(phase, idx) THEN 1 ELSE 0)
                /\ cnn' = o.cnn
                /\ UNCHANGED <<idx, mContoursPG, mNotesPG, mOnsetsPG, corrupt, calls>>
           ELSE /\ cnn' = o.cnn
                /\ Emit((IF HeartbeatDue(phase, idx) THEN 2 ELSE 0) + Markers(phase, next))
                /\ IF RowExists(r)
                   THEN /\ mContoursPG' = [mContoursPG EXCEPT ![r + 1].v = o.outContours]
                        /\ mNotesPG' = [mNotesPG EXCEPT ![r + 1].v = o.outNotes]
                        /\ mOnsetsPG' = [mOnsetsPG EXCEPT ![r + 1].v = o.outOnsets]
                        /\ UNCHANGED corrupt
                   ELSE /\ corrupt' = TRUE
                        /\ UNCHANGED <<mContoursPG, mNotesPG, mOnsetsPG>>
                /\ calls' = Append(calls,
                               [phase |-> phase, src |-> src, input |-> inData, row |-> r,
                                wC |-> rows.wC, wN |-> rows.wN, wO |-> rows.wO,
                                outContours |-> o.outContours, outNotes |-> o.outNotes,
                                outOnsets |-> o.outOnsets,
                                concat2 |-> o.cnn.mConcatArray.ins[2]])
                /\ pc' = next[1]
                /\ idx' = next[2]
                /\ UNCHANGED <<result, what, retEvents>>

\* NeuralNoteTranscriber::transcribe up to the call of transcribeToMIDI:
\* the empty-audio check, BasicPitch::reset and setParameters.
Transcribe ==
    /\ pc = "call"
    /\ calls' = <<>>
    /\ IF audio.samples = 0
       THEN /\ Thrown(EmptyAudioMsg)
            /\ UNCHANGED <<cnn, mContoursPG, mNotesPG, mOnsetsPG, mNoteEvents, mNumFrames,
                           diag>>
       ELSE /\ cnn' = CnnReset(cnn)
            /\ Emit(4)
            /\ mContoursPG' = <<>>
            /\ mNotesPG' = <<>>
            /\ mOnsetsPG' = <<>>
            /\ mNoteEvents' = <<>>
            /\ mNumFrames' = 0
            /\ pc' = "features"
            /\ UNCHANGED <<result, what, retEvents>>
    /\ UNCHANGED <<host, idx, audio, corrupt, runs, hostvars>>

\* transcribeToMIDI up to the first loop: computeFeatures, the three resizes
\* and the reset of the CNN.
ComputeFeatures ==
    /\ pc = "features"
    /\ IF audio.frames < 0
       THEN /\ Thrown(FeaturesMsg)
            /\ Emit(5)
            /\ UNCHANGED <<idx, cnn, mContoursPG, mNotesPG, mOnsetsPG, mNumFrames>>
       ELSE /\ mNumFrames' = audio.frames
            /\ Emit(12)
            /\ mOnsetsPG' = Resize(mOnsetsPG, audio.frames, Row(NUM_FREQ_OUT, ZeroVec))
            /\ mNotesPG' = Resize(mNotesPG, audio.frames, Row(NUM_FREQ_OUT, ZeroVec))
            /\ mContoursPG' = Resize(mContoursPG, audio.frames, Row(NUM_FREQ_IN, ZeroVec))
            /\ cnn' = CnnReset(cnn)
            /\ pc' = EnterWarmupZero(audio.frames)[1]
            /\ idx' = EnterWarmupZero(audio.frames)[2]
            /\ UNCHANGED <<result, what, retEvents>>
    /\ UNCHANGED <<host, audio, mNoteEvents, corrupt, runs, calls, hostvars>>

\* The four loops of transcribeToMIDI, one iteration each, as they run when
\* NeuralNoteDiag::enabled() is `flag`.
WarmupZeroWith(flag) ==
    /\ pc = "warmup_zero"
    /\ InferStep("warmup_zero", -1, {ZeroVec}, 0,
                 IF FrameAfterBody(flag, "warmup_zero", idx) + 1 < mTotalLookahead
                 THEN <<"warmup_zero", FrameAfterBody(flag, "warmup_zero", idx) + 1>>
                 ELSE EnterWarmupCqt(mNumFrames))
    /\ UNCHANGED <<host, audio, mNoteEvents, mNumFrames, runs, hostvars>>

WarmupCqtWith(flag) ==
    /\ pc = "warmup_cqt"
    /\ InferStep("warmup_cqt", idx, CqtRead(idx), 0,
                 IF FrameAfterBody(flag, "warmup_cqt", idx) + 1 < mTotalLookahead
                 THEN <<"warmup_cqt", FrameAfterBody(flag, "warmup_cqt", idx) + 1>>
                 ELSE EnterStream(mNumFrames))
    /\ UNCHANGED <<host, audio, mNoteEvents, mNumFrames, runs, hostvars>>

StreamInferenceWith(flag) ==
    /\ pc = "stream_inference"
    /\ InferStep("stream_inference", idx, CqtRead(idx), SizeSub(idx, mTotalLookahead),
                 IF FrameAfterBody(flag, "stream_inference", idx) + 1 < mNumFrames
                 THEN <<"stream_inference", FrameAfterBody(flag, "stream_inference", idx) + 1>>
                 ELSE EnterTail(mNumFrames))
    /\ UNCHANGED <<host, audio, mNoteEvents, mNumFrames, runs, hostvars>>

TailFlushWith(flag) ==
    /\ pc = "tail_flush"
    /\ InferStep("tail_flush", -1, {ZeroVec}, SizeSub(idx, mTotalLookahead),
                 IF FrameAfterBody(flag, "tail_flush", idx) + 1 < mNumFrames + mTotalLookahead
                 THEN <<"tail_flush", FrameAfterBody(flag, "tail_flush", idx) + 1>>
                 ELSE <<"notes_convert", 0>>)
    /\ UNCHANGED <<host, audio, mNoteEvents, mNumFrames, runs, hostvars>>

WarmupZero == WarmupZeroWith(DiagEnabled)
WarmupCqt == WarmupCqtWith(DiagEnabled)
StreamInference == StreamInferenceWith(DiagEnabled)
TailFlush == TailFlushWith(DiagEnabled)

\* The end of transcribeToMIDI and of transcribe: the note conversion, and the
\* events handed back to the caller.
NotesConvert ==
    /\ pc = "notes_convert"
    /\ mNoteEvents' = Convert(mNotesPG, mOnsetsPG, mContoursPG, audio.notes)
    /\ retEvents' = mNoteEvents'
    /\ result' = "returned"
    /\ pc' = "after"
    /\ Emit(3)
    /\ UNCHANGED <<host, idx, audio, cnn, mContoursPG, mNotesPG, mOnsetsPG,
                   mNumFrames, what, corrupt, runs, calls, hostvars>>

\* ------------------------------------------------------------------------
\* Numbers of the command line.  A double is an integer count of units of
\* 2^-SensBits (sensitivities) or 2^-HzBits (pitches, milliseconds); a float
\* keeps 24 significant bits of it.
\* ------------------------------------------------------------------------
RECURSIVE Pow2(_)
Pow2(n) == IF n = 0 THEN 1 ELSE 2 * Pow2(n - 1)

RECURSIVE FloorLog2(_)
FloorLog2(v) == IF v < 2 THEN 0 ELSE 1 + FloorLog2(v \div 2)

\* Mutant: the conversion keeps every bit of the double.
ToFloat_Exact(v) == v

\* a rounded to a multiple of q: to the nearest, a tie to the even multiple.
RoundToMultiple(a, q) ==
    IF 2 * (a % q) > q \/ (2 * (a % q) = q /\ (a \div q) % 2 = 1)
    THEN (a \div q) * q + q
    ELSE (a \div q) * q

\* a >= 0 with 24 significant bits kept.
RoundMagnitude(a) ==
    IF FloorLog2(a) < 24 THEN a ELSE RoundToMultiple(a, Pow2(FloorLog2(a) - 23))

\* static_cast<float>(double): round to nearest, ties to even, at 24 bits.
ToFloat(v) == IF v < 0 THEN -RoundMagnitude(-v) ELSE RoundMagnitude(v)

SensOne == Pow2(26)
Hz(n) == n * Pow2(14)

\* ------------------------------------------------------------------------
\* Command-line arguments of the notes CLI
\* ------------------------------------------------------------------------
\* The value given for an option: none, a number, text std::stod / std::stoi
\* rejects, or text std::stod turns into an infinity or a NaN.
Absent == [kind |-> "absent", v |-> 0]
Junk == [kind |-> "junk", v |-> 0]
NonFinite == [kind |-> "nonfinite", v |-> 0]
Num(v) == [kind |-> "num", v |-> v]

SensOutOfRange == {Num(SensOne + (SensOne \div 2)), Num(-(SensOne \div 2))}
SensArgs == {Absent, Junk, NonFinite, Num(SensOne \div 2), Num(SensOne), Num(SensOne + 1),
             Num(0)} \cup SensOutOfRange
PitchArgs == {Absent, Junk, Num(0), Num(-Hz(1)), Num(Hz(100)), Num(Hz(3000)),
              Num(Hz(3000) + 1), Num(Hz(4000))}

ArgFields == {"input", "output", "model", "preset", "noteSens", "splitSens", "minNoteMs",
              "melodia", "minPitch", "maxPitch", "energy"}

ArgValues(f) ==
    CASE f \in {"input", "output", "model"} -> BOOLEAN
      [] f = "preset" -> {"absent", "balanced", "fast"}
      [] f \in {"noteSens", "splitSens"} -> SensArgs
      [] f = "minNoteMs" -> {Absent, Junk, Num(0), Num(Hz(30))}
      [] f = "melodia" -> {"absent", "true", "off", "maybe"}
      [] f \in {"minPitch", "maxPitch"} -> PitchArgs
      [] f = "energy" -> {Absent, Junk, Num(0), Num(5)}

\* The required options alone.
PlainArgs ==
    [input |-> TRUE, output |-> TRUE, model |-> TRUE, preset |-> "absent",
     noteSens |-> Absent, splitSens |-> Absent, minNoteMs |-> Absent, melodia |-> "absent",
     minPitch |-> Absent, maxPitch |-> Absent, energy |-> Absent]

\* The command lines of the model: one option changed, the two pitch bounds
\* together, or a sensitivity out of range together with any other option.
ArgVectors ==
    UNION {{[PlainArgs EXCEPT ![f] = v] : v \in ArgValues(f)} : f \in ArgFields}
    \cup {[PlainArgs EXCEPT !.minPitch = v, !.maxPitch = w] : v \in PitchArgs, w \in PitchArgs}
    \cup UNION {UNION {{[[PlainArgs EXCEPT ![f] = v] EXCEPT ![g] = w] :
                           v \in SensOutOfRange, w \in ArgValues(g)} :
                       g \in ArgFields \ {f}} : f \in {"noteSens", "splitSens"}}

\* NeuralNoteBalancedPreset's default member initialisers.
DefaultPreset ==
    [noteSensitivity |-> ToFloat((SensOne \div 1000) * 645),
     splitSensitivity |-> ToFloat((SensOne \div 100) * 69),
     minNoteDurationMs |-> Hz(24),
     melodiaTrick |-> FALSE,
     minPitchHz |-> Hz(1),
     maxPitchHz |-> Hz(3000),
     energyTolerance |-> 11]

\* parseDoubleArg / parseIntArg / parseBoolArg: FALSE when they report an error.
ParseDoubleOk(a) == a.kind \in {"absent", "num"}
ParseIntOk(a) == a.kind \in {"absent", "num"}
ParseBoolOk(a) == a \in {"absent", "true", "off"}

UsageMsg == "Usage: nn_transcriber_cli --input-f32le <audio.f32> --output-json <events.json> --model-dir <modeldir> [--preset balanced]"
PresetMsg == "Only preset 'balanced' is supported"
NoteSensRangeMsg == "--note-sensitivity must be in [0,1]"
SplitSensRangeMsg == "--split-sensitivity must be in [0,1]"
NoNotesMsg == "No notes detected in uploaded audio."
\* The messages that contain the text "in [0,1]".
RangeMsgs == {NoteSensRangeMsg, SplitSensRangeMsg}

\* The first parse error of main, in the order of its parse calls; "" if none.
ParseError(a) ==
    IF ~ParseDoubleOk(a.noteSens) THEN "Invalid numeric value for --note-sensitivity"
    ELSE IF ~ParseDoubleOk(a.splitSens) THEN "Invalid numeric value for --split-sensitivity"
    ELSE IF ~ParseDoubleOk(a.minNoteMs) THEN "Invalid numeric value for --min-note-ms"
    ELSE IF ~ParseBoolOk(a.melodia)
         THEN "Invalid boolean value for --melodia-trick (expected 0/1/true/false)"
    ELSE IF ~ParseDoubleOk(a.minPitch) THEN "Invalid numeric value for --min-pitch-hz"
    ELSE IF ~ParseDoubleOk(a.maxPitch) THEN "Invalid numeric value for --max-pitch-hz"
    ELSE IF ~ParseIntOk(a.energy) THEN "Invalid integer value for --energy-tolerance"
    ELSE ""

\* A float member after its override, if one was given.
Override(a, default) == IF a.kind = "num" THEN ToFloat(a.v) ELSE default

\* presetValues once every override has parsed.
ResolvePreset(a) ==
    [noteSensitivity |-> Override(a.noteSens, DefaultPreset.noteSensitivity),
     splitSensitivity |-> Override(a.splitSens, DefaultPreset.splitSensitivity),
     minNoteDurationMs |-> Override(a.minNoteMs, DefaultPreset.minNoteDurationMs),
     melodiaTrick |-> IF a.melodia = "absent" THEN DefaultPreset.melodiaTrick
                      ELSE a.melodia = "true",
     minPitchHz |-> Override(a.minPitch, DefaultPreset.minPitchHz),
     maxPitchHz |-> Override(a.maxPitch, DefaultPreset.maxPitchHz),
     energyTolerance |-> IF a.energy.kind = "num" THEN a.energy.v
                         ELSE DefaultPreset.energyTolerance]

\* Mutant: the order of the two pitch bounds is not checked.
RangeError_NoPitchOrder(p) ==
    IF p.noteSensitivity < 0 \/ p.noteSensitivity > SensOne THEN NoteSensRangeMsg
    ELSE IF p.splitSensitivity < 0 \/ p.splitSensitivity > SensOne THEN SplitSensRangeMsg
    ELSE IF p.minNoteDurationMs <= 0 THEN "--min-note-ms must be > 0"
    ELSE IF p.minPitchHz < 0 THEN "--min-pitch-hz must be >= 0"
    ELSE IF p.maxPitchHz < 0 THEN "--max-pitch-hz must be >= 0"
    ELSE IF p.energyTolerance < 1 THEN "--energy-tolerance must be >= 1"
    ELSE ""

\* Mutant: the split sensitivity is not range-checked.
RangeError_NoSplitCheck(p) ==
    IF p.noteSensitivity < 0 \/ p.noteSensitivity > SensOne THEN NoteSensRangeMsg
    ELSE IF p.minNoteDurationMs <= 0 THEN "--min-note-ms must be > 0"
    ELSE IF p.minPitchHz < 0 THEN "--min-pitch-hz must be >= 0"
    ELSE IF p.maxPitchHz < 0 THEN "--max-pitch-hz must be >= 0"
    ELSE IF p.maxPitchHz > 0 /\ p.minPitchHz > 0 /\ p.maxPitchHz < p.minPitchHz
         THEN "--max-pitch-hz must be >= --min-pitch-hz"
    ELSE IF p.energyTolerance < 1 THEN "--energy-tolerance must be >= 1"
    ELSE ""

\* The first range error of main, in the order of its checks; "" if none.
RangeError(p) ==
    IF p.noteSensitivity < 0 \/ p.noteSensitivity > SensOne THEN NoteSensRangeMsg
    ELSE IF p.splitSensitivity < 0 \/ p.splitSensitivity > SensOne THEN SplitSensRangeMsg
    ELSE IF p.minNoteDurationMs <= 0 THEN "--min-note-ms must be > 0"
    ELSE IF p.minPitchHz < 0 THEN "--min-pitch-hz must be >= 0"
    ELSE IF p.maxPitchHz < 0 THEN "--max-pitch-hz must be >= 0"
    ELSE IF p.maxPitchHz > 0 /\ p.minPitchHz > 0 /\ p.maxPitchHz < p.minPitchHz
         THEN "--max-pitch-hz must be >= --min-pitch-hz"
    ELSE IF p.energyTolerance < 1 THEN "--energy-tolerance must be >= 1"
    ELSE ""

\* The argument handling of main: the message of the first error it reports
\* ("" if none) and presetValues as far as main has filled it in.
CheckArgs(a) ==
    IF ~(a.input /\ a.output /\ a.model) THEN [error |-> UsageMsg, preset |-> <<>>]
    ELSE IF (IF a.preset = "absent" THEN "balanced" ELSE a.preset) # "balanced"
    THEN [error |-> PresetMsg, preset |-> <<>>]
    ELSE IF ParseError(a) # "" THEN [error |-> ParseError(a), preset |-> <<>>]
    ELSE [error |-> RangeError(ResolvePreset(a)), preset |-> ResolvePreset(a)]

\* ------------------------------------------------------------------------
\* Files
\* ------------------------------------------------------------------------
\* A PCM file: whether it opens, its size in bytes, whether reading it fails.
PcmFile(e, n, f) == [exists |-> e, size |-> n, ioFail |-> f]
PcmFiles == {PcmFile(FALSE, 0, FALSE), PcmFile(TRUE, 0, FALSE), PcmFile(TRUE, 6, FALSE),
             PcmFile(TRUE, 8, TRUE), PcmFile(TRUE, 8, FALSE)}

\* readFloat32LeFile: the sample count on success, the message on failure.
readFloat32LeFile(file) ==
    IF ~file.exists THEN [ok |-> FALSE, samples |-> 0, error |-> "Could not open PCM file: "]
    ELSE IF file.size <= 0 \/ file.size % 4 # 0
    THEN [ok |-> FALSE, samples |-> 0, error |-> "PCM file has invalid size"]
    ELSE IF file.ioFail
    THEN [ok |-> FALSE, samples |-> file.size \div 4, error |-> "Failed reading PCM file"]
    ELSE [ok |-> TRUE, samples |-> file.size \div 4, error |-> ""]

\* How writing the output JSON can go: the path does not open, the stream
\* goes bad while writing, or the file is written.
WriteOutcomes == {"noopen", "badwrite", "ok"}
WriteError(w) ==
    CASE w = "noopen" -> "Could not open output JSON path: "
      [] w = "badwrite" -> "Failed writing JSON output"
      [] w = "ok" -> ""
FileAfterWrite(w) == IF w = "noopen" THEN "untouched" ELSE IF w = "ok" THEN "written" ELSE "opened"

ModelLoadMsg == "Cannot open model file: "

\* ------------------------------------------------------------------------
\* The notes CLI: main
\* ------------------------------------------------------------------------
Exit(code, msg) ==
    /\ pc' = "exit"
    /\ exitCode' = code
    /\ stderr' = msg

\* main up to the try block: argument lookup, parsing and range checks.
CliArgs ==
    /\ host = "cli"
    /\ pc = "main"
    /\ \E c \in {CheckArgs(args)} :
          /\ presetValues' = c.preset
          /\ IF c.error # "" THEN Exit(1, c.error) /\ Emit(2)
             ELSE /\ pc' = "read_input"
                  /\ Emit(3)
                  /\ UNCHANGED <<exitCode, stderr>>
    /\ UNCHANGED <<host, idx, audio, cnn, mContoursPG, mNotesPG, mOnsetsPG, mNoteEvents,
                   mNumFrames, result, what, retEvents, corrupt, runs, calls, args,
                   status, outFile, pcmRead, modelLoaded, tempoResult, inputFile,
                   tempo, probe>>

\* main: readFloat32LeFile and the empty check.
CliReadInput ==
    /\ host = "cli"
    /\ pc = "read_input"
    /\ pcmRead' = pcmRead + 1
    /\ \E file \in PcmFiles :
          /\ inputFile' = file
          /\ \E rd \in {readFloat32LeFile(file)} :
                IF ~rd.ok THEN Exit(1, rd.error) /\ Emit(1) /\ UNCHANGED audio
                ELSE IF rd.samples = 0 THEN Exit(1, EmptyAudioMsg) /\ Emit(2) /\ UNCHANGED audio
                ELSE /\ \E a \in AudiosOf(rd.samples) : audio' = a
                     /\ pc' = "create"
                     /\ Emit(3)
                     /\ UNCHANGED <<exitCode, stderr>>
    /\ UNCHANGED <<host, idx, cnn, mContoursPG, mNotesPG, mOnsetsPG, mNoteEvents,
                   mNumFrames, result, what, retEvents, corrupt, runs, calls, args,
                   presetValues, status, outFile, modelLoaded, tempoResult, tempo, probe>>

\* main: the NeuralNoteTranscriber constructor, which throws when a model
\* file is missing or does not load.
CliCreate ==
    /\ host = "cli"
    /\ pc = "create"
    /\ modelLoaded' = TRUE
    /\ \E loads \in BOOLEAN :
          IF loads
          THEN /\ pc' = "call"
               /\ runs' = runs + 1
               /\ Emit(3)
               /\ UNCHANGED <<exitCode, stderr, what>>
          ELSE /\ what' = ModelLoadMsg
               /\ Exit(1, ModelLoadMsg)
               /\ Emit(1)
               /\ UNCHANGED runs
    /\ UNCHANGED <<host, idx, audio, cnn, mContoursPG, mNotesPG, mOnsetsPG, mNoteEvents,
                   mNumFrames, result, retEvents, corrupt, calls, args, presetValues,
                   status, outFile, pcmRead, tempoResult, inputFile, tempo, probe>>

\* Mutant: the JSON is written before the events are looked at.
CliFinish_WritesFirst ==
    /\ host = "cli"
    /\ pc = "after"
    /\ \E w \in WriteOutcomes :
          /\ outFile' = FileAfterWrite(w)
          /\ IF result = "thrown" THEN Exit(1, what) /\ Emit(1)
             ELSE IF retEvents = <<>> THEN Exit(2, NoNotesMsg) /\ Emit(1)
             ELSE IF w # "ok" THEN Exit(1, WriteError(w)) /\ Emit(2)
             ELSE Exit(0, "") /\ Emit(4)
    /\ UNCHANGED <<host, idx, audio, cnn, mContoursPG, mNotesPG, mOnsetsPG, mNoteEvents,
                   mNumFrames, result, what, retEvents, corrupt, runs, calls, args,
                   presetValues, status, pcmRead, modelLoaded, tempoResult, inputFile,
                   tempo, probe>>

\* main after transcribe: the catch block, the empty-events exit, the JSON.
CliFinish ==
    /\ host = "cli"
    /\ pc = "after"
    /\ IF result = "thrown" THEN Exit(1, what) /\ Emit(1) /\ UNCHANGED outFile
       ELSE IF retEvents = <<>> THEN Exit(2, NoNotesMsg) /\ Emit(1) /\ UNCHANGED outFile
       ELSE \E w \in WriteOutcomes :
               /\ outFile' = FileAfterWrite(w)
               /\ IF w # "ok" THEN Exit(1, WriteError(w)) /\ Emit(2)
                  ELSE Exit(0, "") /\ Emit(4)
    /\ UNCHANGED <<host, idx, audio, cnn, mContoursPG, mNotesPG, mOnsetsPG, mNoteEvents,
                   mNumFrames, result, what, retEvents, corrupt, runs, calls, args,
                   presetValues, status, pcmRead, modelLoaded, tempoResult, inputFile,
                   tempo, probe>>

\* ------------------------------------------------------------------------
\* The host binding: runTranscription
\* ------------------------------------------------------------------------
\* The five path arguments, TRUE when the string is not empty.
JniPlainArgs ==
    [pcm |-> TRUE, tempoPcm |-> TRUE, modelDir |-> TRUE, tempoModel |-> TRUE, output |-> TRUE]
JniArgVectors ==
    {JniPlainArgs} \cup {[JniPlainArgs EXCEPT ![f] = FALSE] : f \in DOMAIN JniPlainArgs}

JniParamsMsg == "Invalid JNI parameters for transcription."
TempoLoadMsg == "Unable to read ONNX input name."
TempoEstimateMsg == "Failed to compute mel features."

\* How the tempo pipeline can go: the TempoCnn constructor throws, estimate
\* throws, or estimate returns.
TempoOutcomes == {"ctor_throws", "estimate_throws", "returned"}

Return(str) ==
    /\ pc' = "exit"
    /\ status' = str

\* runTranscription up to the call of transcribe: the parameter check, the two
\* PCM reads, the empty checks and the NeuralNoteTranscriber constructor.
JniBegin ==
    /\ host = "jni"
    /\ pc = "main"
    /\ IF \E f \in DOMAIN args : ~args[f]
       THEN /\ Return(JniParamsMsg)
            /\ UNCHANGED <<audio, what, runs, pcmRead, modelLoaded, diag>>
       ELSE \E nn \in PcmFiles, tempoPcm \in PcmFiles :
               \E rd1 \in {readFloat32LeFile(nn)}, rd2 \in {readFloat32LeFile(tempoPcm)} :
                  IF ~rd1.ok
                  THEN /\ Return(rd1.error)
                       /\ pcmRead' = 1
                       /\ UNCHANGED <<audio, what, runs, modelLoaded, diag>>
                  ELSE IF ~rd2.ok
                  THEN /\ Return(rd2.error)
                       /\ pcmRead' = 2
                       /\ UNCHANGED <<audio, what, runs, modelLoaded, diag>>
                  ELSE IF rd1.samples = 0
                  THEN /\ Return("Input NeuralNote audio is empty")
                       /\ pcmRead' = 2
                       /\ UNCHANGED <<audio, what, runs, modelLoaded, diag>>
                  ELSE IF rd2.samples = 0
                  THEN /\ Return("Input Tempo-CNN audio is empty")
                       /\ pcmRead' = 2
                       /\ UNCHANGED <<audio, what, runs, modelLoaded, diag>>
                  ELSE /\ pcmRead' = 2
                       /\ modelLoaded' = TRUE
                       /\ \E loads \in BOOLEAN :
                             IF loads
                             THEN /\ \E a \in AudiosOf(rd1.samples) : audio' = a
                                  /\ pc' = "call"
                                  /\ runs' = runs + 1
                                  /\ Emit(1)
                                  /\ UNCHANGED <<status, what>>
                             ELSE /\ what' = ModelLoadMsg
                                  /\ Return(ModelLoadMsg)
                                  /\ UNCHANGED <<audio, runs, diag>>
    /\ UNCHANGED <<host, idx, cnn, mContoursPG, mNotesPG, mOnsetsPG, mNoteEvents,
                   mNumFrames, result, retEvents, corrupt, calls, args, presetValues,
                   exitCode, stderr, outFile, tempoResult, inputFile, tempo, probe>>

\* runTranscription after transcribe: the catch block, the tempo pipeline,
\* the combined JSON.
JniFinish ==
    /\ host = "jni"
    /\ pc = "after"
    /\ IF result = "thrown"
       THEN /\ Return(what)
            /\ UNCHANGED <<what, outFile, tempoResult>>
       ELSE \E t \in TempoOutcomes :
               IF t # "returned"
               THEN /\ tempoResult' = "thrown"
                    /\ what' = (IF t = "ctor_throws" THEN TempoLoadMsg ELSE TempoEstimateMsg)
                    /\ Return(what')
                    /\ UNCHANGED outFile
               ELSE /\ tempoResult' = "returned"
                    /\ \E w \in WriteOutcomes :
                          /\ outFile' = FileAfterWrite(w)
                          /\ Return(IF w = "ok" THEN "null" ELSE WriteError(w))
                    /\ UNCHANGED what
    /\ UNCHANGED <<host, idx, audio, cnn, mContoursPG, mNotesPG, mOnsetsPG, mNoteEvents,
                   mNumFrames, result, retEvents, corrupt, runs, calls, args,
                   presetValues, exitCode, stderr, pcmRead, modelLoaded, inputFile,
                   tempo, probe, diag>>

\* ------------------------------------------------------------------------
\* The tempo pipeline: numbers
\* A bpm is an integer count of quarters of a millionth of a beat per minute
\* where the code holds a double, and of millionths once roundToDecimals has
\* rounded it; a time is a count of microseconds.  A class posterior is a
\* count of hundredths, NaN the value that compares false with everything.
\* ------------------------------------------------------------------------
kSampleRate == 11025
kNfft == 1024
kStftHopLength == 512
kTempoClasses == 256
kWindowFrames == 256
kGlobalHopFrames == 128
kLocalHopFrames == 32
kLocalSmoothingWindow == 5

Micro == 1000 * 1000
QMicro == 4 * Micro
kTempoMinBpm == 20 * QMicro
kTempoMaxBpm == 300 * QMicro
\* 0.7 s in microseconds, 0.75 bpm in millionths
kLocalTempoMinTimeDelta == 700000
kLocalTempoMinBpmDelta == 750000

NaN == -1
Abs(x) == IF x < 0 THEN -x ELSE x
Max(a, b) == IF a < b THEN b ELSE a
Min(a, b) == IF b < a THEN b ELSE a

\* x / d rounded to the nearest integer, a half away from zero (x, d >= 0).
RoundDiv(x, d) == x \div d + (IF 2 * (x % d) >= d THEN 1 ELSE 0)

\* Mutant: the lower limit is not applied.
clampDouble_NoFloor(value, minValue, maxValue) == Min(maxValue, value)

clampDouble(value, minValue, maxValue) == Max(minValue, Min(maxValue, value))

\* roundToDecimals(value, 6) of a bpm: quarters of millionths to millionths.
roundToDecimals(value) == RoundDiv(value, 4)

\* roundToDecimals(index * hopSeconds, 6), hopSeconds being hopSamples /
\* kSampleRate: the product is split so that no intermediate exceeds 32 bits.
RoundedTime(index, hopSamples) ==
    index * hopSamples * (Micro \div kSampleRate)
    + RoundDiv(index * hopSamples * (Micro % kSampleRate), kSampleRate)

\* ------------------------------------------------------------------------
\* The tempo pipeline: features and windows
\* ------------------------------------------------------------------------
\* Mutant: the signal is not padded before framing.
computeMelSpectrogram_NoPadding(n) ==
    IF n = 0 THEN 0
    ELSE IF n < kNfft THEN 0
    ELSE 1 + (n - kNfft) \div kStftHopLength

\* computeMelSpectrogram: totalFrames of the tensor it returns for n samples
\* (0 with an empty tensor).
computeMelSpectrogram(n) ==
    IF n = 0 THEN 0
    ELSE IF n + 2 * (kNfft \div 2) < kNfft THEN 0
    ELSE 1 + (n + 2 * (kNfft \div 2) - kNfft) \div kStftHopLength

\* toSlidingWindows: the frames of the tensor the windows are cut from, after
\* the optional zero padding and the padding up to one window.
WorkingFrames(totalFrames, windowFrames, zeroPad) ==
    Max(windowFrames, IF zeroPad THEN totalFrames + windowFrames ELSE totalFrames)

SafeHop(hopFrames) == Max(1, hopFrames)

\* Mutant: one window more is cut.
NumWindows_OneMore(totalFrames, windowFrames, hopFrames, zeroPad) ==
    IF totalFrames <= 0 THEN 0
    ELSE (WorkingFrames(totalFrames, windowFrames, zeroPad) - windowFrames)
             \div SafeHop(hopFrames) + 2

\* toSlidingWindows: numWindows of the tensor it returns.
NumWindows(totalFrames, windowFrames, hopFrames, zeroPad) ==
    IF totalFrames <= 0 THEN 0
    ELSE (WorkingFrames(totalFrames, windowFrames, zeroPad) - windowFrames)
             \div SafeHop(hopFrames) + 1

\* n zero columns
Zeros(n) == [k \in 1..n |-> 0]

\* Mutant: the zero padding goes in front of the band.
WorkingBand_PadsBefore(band, windowFrames, zeroPad) ==
    IF zeroPad THEN Zeros(windowFrames) \o band
    ELSE IF Len(band) < windowFrames THEN Zeros(windowFrames - Len(band)) \o band
    ELSE band

\* toSlidingWindows: one band of the tensor the windows are cut from.
WorkingBand(band, windowFrames, zeroPad) ==
    IF zeroPad
    THEN Zeros(windowFrames \div 2) \o band \o Zeros(windowFrames - windowFrames \div 2)
    ELSE IF Len(band) < windowFrames THEN band \o Zeros(windowFrames - Len(band))
    ELSE band

\* toSlidingWindows(features, windowFrames, hopFrames, zeroPad): features.data
\* holds one sequence of columns per mel band; the result holds, per window,
\* one sequence of windowFrames columns per band.
toSlidingWindows(features, windowFrames, hopFrames, zeroPad) ==
    IF features.totalFrames <= 0 \/ features.data = <<>>
    THEN [numWindows |-> 0, data |-> <<>>]
    ELSE [numWindows |-> NumWindows(features.totalFrames, windowFrames, hopFrames, zeroPad),
          data |-> [n \in 1..NumWindows(features.totalFrames, windowFrames, hopFrames, zeroPad) |->
                      [mel \in DOMAIN features.data |->
                          SubSeq(WorkingBand(features.data[mel], windowFrames, zeroPad),
                                 (n - 1) * SafeHop(hopFrames) + 1,
                                 (n - 1) * SafeHop(hopFrames) + windowFrames)]]]

\* ------------------------------------------------------------------------
\* The tempo pipeline: posteriors
\* ------------------------------------------------------------------------
\* A row of class posteriors peaking at class c, the left neighbour lower than
\* the right one; a flat row; a row of NaN.
PeakRow(c) ==
    [k \in 0..(kTempoClasses - 1) |->
        IF k = c THEN 90 ELSE IF k = c - 1 THEN 4 ELSE IF k = c + 1 THEN 6 ELSE 0]
NaNRow == [k \in 0..(kTempoClasses - 1) |-> NaN]

\* a > b on doubles
Greater(a, b) == a # NaN /\ b # NaN /\ a > b

\* argmax: the loop over the indices lo..hi, bestIndex being the best before
\* it (an index of values); the range is walked in two halves, the left one
\* first, which keeps the evaluation shallow.
RECURSIVE ArgmaxOver(_, _, _, _)
ArgmaxOver(values, lo, hi, bestIndex) ==
    IF lo > hi \/ bestIndex \notin DOMAIN values THEN bestIndex
    ELSE IF lo = hi
    THEN (IF Greater(values[lo], values[bestIndex]) THEN lo ELSE bestIndex)
    ELSE ArgmaxOver(values, (lo + hi) \div 2 + 1, hi,
                    ArgmaxOver(values, lo, (lo + hi) \div 2, bestIndex))

argmax(values) ==
    IF DOMAIN values = {} THEN 0
    ELSE ArgmaxOver(values, 1, Cardinality(DOMAIN values) - 1, 0)

\* A double that is the quotient of two integers, den > 0.
Frac(n, d) == IF d < 0 THEN [num |-> -n, den |-> -d] ELSE [num |-> n, den |-> d]

\* Mutant: the offset is not clamped.
ClampDelta_Unclamped(f) == f

\* clampDouble(delta, -1.0, 1.0)
ClampDelta(f) ==
    IF f.num > f.den THEN Frac(1, 1) ELSE IF f.num < -f.den THEN Frac(-1, 1) ELSE f

\* index + f
AddIndex(index, f) == Frac(index * f.den + f.num, f.den)

\* Mutant: the factor 0.5 of the offset is left out.
Parabolic_NoHalf(index, left, center, right) ==
    IF NaN \in {left, center, right} THEN Frac(index + 1, 1)
    ELSE IF left - 2 * center + right = 0 THEN Frac(index, 1)
    ELSE AddIndex(index, ClampDelta(Frac(left - right, left - 2 * center + right)))

\* interpolateArgmax past its first return: index plus the clamped offset
\* 0.5 * (left - right) / (left - 2 * center + right).  A NaN among the three
\* makes the offset NaN, which clampDouble turns into 1.
Parabolic(index, left, center, right) ==
    IF NaN \in {left, center, right} THEN Frac(index + 1, 1)
    ELSE IF left - 2 * center + right = 0 THEN Frac(index, 1)
    ELSE AddIndex(index, ClampDelta(Frac(left - right, 2 * (left - 2 * center + right))))

\* interpolateArgmax(values, index), values a function on 0..size-1
interpolateArgmax(values, index) ==
    IF index <= 0 \/ index >= Cardinality(DOMAIN values) - 1 THEN Frac(index, 1)
    ELSE Parabolic(index, values[index - 1], values[index], values[index + 1])

\* A quotient as a double, in quarters of millionths.
Fixed(f) == (f.num \div f.den) * QMicro + ((f.num % f.den) * QMicro) \div f.den

classIndexToBpm(index) == clampDouble(index + 30 * QMicro, kTempoMinBpm, kTempoMaxBpm)

\* averagePredictions: the column sums of the rows, in units of
\* 1 / numWindows (a NaN in a column makes its sum NaN).
RECURSIVE ColumnSum(_, _, _)
ColumnSum(predictions, col, row) ==
    IF row > Len(predictions) THEN 0
    ELSE IF predictions[row][col] = NaN \/ ColumnSum(predictions, col, row + 1) = NaN THEN NaN
    ELSE predictions[row][col] + ColumnSum(predictions, col, row + 1)

averagePredictions(predictions, numWindows) ==
    [col \in 0..(kTempoClasses - 1) |->
        IF numWindows <= 0 THEN 0 ELSE ColumnSum(predictions, col, 1)]

\* predictionRowsToBpmSeries
predictionRowsToBpmSeries(predictions, numWindows) ==
    [row \in 1..Max(0, numWindows) |-> classIndexToBpm(argmax(predictions[row]) * QMicro)]

\* movingAverageSame: the sum of the values of the window around `index`
\* that exist, divided by safeWindow; the division is taken term by term so
\* that no intermediate exceeds 32 bits.
RECURSIVE WindowQuot(_, _, _, _)
WindowQuot(values, lo, hi, w) ==
    IF lo > hi THEN 0
    ELSE (IF lo \in DOMAIN values THEN values[lo] \div w ELSE 0) + WindowQuot(values, lo + 1, hi, w)
RECURSIVE WindowRem(_, _, _, _)
WindowRem(values, lo, hi, w) ==
    IF lo > hi THEN 0
    ELSE (IF lo \in DOMAIN values THEN values[lo] % w ELSE 0) + WindowRem(values, lo + 1, hi, w)

\* Mutant: an even window is kept.
SafeWindow_KeepsEven(windowSize) == Max(1, windowSize)

SafeWindow(windowSize) ==
    IF Max(1, windowSize) % 2 = 0 THEN Max(1, windowSize) + 1 ELSE Max(1, windowSize)

\* Mutant: the sum is divided by the number of values that exist.
Divisor_InRange(values, index, w) ==
    Cardinality({k \in (index - w \div 2)..(index + w \div 2) : k \in DOMAIN values})

\* The divisor of the window around `index`: safeWindow, at the edges too.
Divisor(values, index, w) == w

MovingAverageAt(values, index, w) ==
    WindowQuot(values, index - w \div 2, index + w \div 2, Divisor(values, index, w))
    + WindowRem(values, index - w \div 2, index + w \div 2, Divisor(values, index, w))
          \div Divisor(values, index, w)

movingAverageSame(values, windowSize) ==
    [index \in 1..Len(values) |-> MovingAverageAt(values, index, SafeWindow(windowSize))]

\* Mutant: the first point is one hop after the start.
RawPoint_TimeFromOne(bpmSeries, index, hopSamples) ==
    [timeSeconds |-> RoundedTime(index + 1, hopSamples),
     bpm |-> roundToDecimals(clampDouble(bpmSeries[index + 1], kTempoMinBpm, kTempoMaxBpm))]

\* compressTempoPoints: the raw point of index `index` (from 0), hopSeconds
\* being hopSamples / kSampleRate.
RawPoint(bpmSeries, index, hopSamples) ==
    [timeSeconds |-> RoundedTime(index, hopSamples),
     bpm |-> roundToDecimals(clampDouble(bpmSeries[index + 1], kTempoMinBpm, kTempoMaxBpm))]

RawPoints(bpmSeries, hopSamples) ==
    [i \in 1..Len(bpmSeries) |-> RawPoint(bpmSeries, i - 1, hopSamples)]

\* Mutant: a point is dropped when either delta is below its threshold.
Dropped_EitherBelow(current, last) ==
    \/ current.timeSeconds - last.timeSeconds < kLocalTempoMinTimeDelta
    \/ Abs(current.bpm - last.bpm) < kLocalTempoMinBpmDelta

\* Mutant: a point is dropped when its bpm delta is below the threshold.
Dropped_BpmOnly(current, last) ==
    Abs(current.bpm - last.bpm) < kLocalTempoMinBpmDelta

\* The test of the second loop of compressTempoPoints.
Dropped(current, last) ==
    /\ current.timeSeconds - last.timeSeconds < kLocalTempoMinTimeDelta
    /\ Abs(current.bpm - last.bpm) < kLocalTempoMinBpmDelta

\* The second loop of compressTempoPoints from raw[i] on.
RECURSIVE CompressFrom(_, _, _)
CompressFrom(raw, i, compressed) ==
    IF i > Len(raw) THEN compressed
    ELSE CompressFrom(raw, i + 1,
                      IF Dropped(raw[i], compressed[Len(compressed)]) THEN compressed
                      ELSE Append(compressed, raw[i]))

compressTempoPoints(bpmSeries, hopSamples) ==
    IF bpmSeries = <<>> THEN <<>>
    ELSE CompressFrom(RawPoints(bpmSeries, hopSamples), 2,
                      <<RawPoint(bpmSeries, 0, hopSamples)>>)

\* The clamp loop of estimate over the smoothed series.
ClampSeries(localTempi) ==
    [i \in 1..Len(localTempi) |-> clampDouble(localTempi[i], kTempoMinBpm, kTempoMaxBpm)]

\* ------------------------------------------------------------------------
\* The tempo CLI: main, and TempoCnn::estimate
\* ------------------------------------------------------------------------
\* The command line: whether --help, --input-f32le and --model-onnx are given,
\* and the (lower-cased) values of the two boolean options.
TempoPlainArgs ==
    [help |-> FALSE, input |-> TRUE, model |-> TRUE, interpolate |-> "absent",
     localTempo |-> "absent"]
TempoArgVectors ==
    {[TempoPlainArgs EXCEPT !.interpolate = i, !.localTempo = l] :
         i \in {"absent", "1"}, l \in {"absent", "1", "0"}}
    \cup {[TempoPlainArgs EXCEPT !.help = TRUE],
          [TempoPlainArgs EXCEPT !.input = FALSE],
          [TempoPlainArgs EXCEPT !.model = FALSE],
          [TempoPlainArgs EXCEPT !.interpolate = "maybe"],
          [TempoPlainArgs EXCEPT !.localTempo = "maybe"],
          [TempoPlainArgs EXCEPT !.interpolate = "off", !.localTempo = "yes"]}

\* parseBool(args, key, defaultValue, outError)
parseBool(value, key, defaultValue) ==
    IF value = "absent" THEN [value |-> defaultValue, error |-> ""]
    ELSE IF value \in {"1", "true", "yes", "on"} THEN [value |-> TRUE, error |-> ""]
    ELSE IF value \in {"0", "false", "no", "off"} THEN [value |-> FALSE, error |-> ""]
    ELSE [value |-> defaultValue,
          error |-> "Invalid boolean value for " \o key \o " (expected true/false or 1/0)."]

\* The sample counts of the tempo inputs, and the files that hold them.
TempoSampleCounts == {1, 1023, 1024, 15871, 15872, 55125, 65536}
TempoPcmFiles ==
    {PcmFile(FALSE, 0, FALSE), PcmFile(TRUE, 0, FALSE), PcmFile(TRUE, 6, FALSE),
     PcmFile(TRUE, 8, TRUE)}
    \cup {PcmFile(TRUE, 4 * n, FALSE) : n \in TempoSampleCounts}

\* readFloat32LeFile of TempoIO.cpp: the sample count on success, the message
\* on failure.  A file of no bytes is read as no samples.
TempoIO_readFloat32LeFile(file) ==
    IF ~file.exists THEN [ok |-> FALSE, samples |-> 0, error |-> "Cannot open input file: "]
    ELSE IF file.size < 0
    THEN [ok |-> FALSE, samples |-> 0, error |-> "Failed to determine input file size: "]
    ELSE IF file.size % 4 # 0
    THEN [ok |-> FALSE, samples |-> 0,
          error |-> "Input file size is not aligned to float32 samples: "]
    ELSE IF file.size = 0 THEN [ok |-> TRUE, samples |-> 0, error |-> ""]
    ELSE IF file.ioFail
    THEN [ok |-> FALSE, samples |-> file.size \div 4, error |-> "Failed to read input file: "]
    ELSE [ok |-> TRUE, samples |-> file.size \div 4, error |-> ""]

TempoEmptyMsg == "Input audio is empty."
TempoWindowsMsg == "Failed to build global tempo windows."
TempoShapeMsg == "TempoCNN ONNX output shape mismatch."
TempoSessionMsg == "Load model failed"

\* The rows the tempo model can return for a window.
TempoRows == {PeakRow(90), PeakRow(255), NaNRow}

\* The variables the tempo CLI never touches.
nntvars == <<idx, audio, cnn, mContoursPG, mNotesPG, mOnsetsPG, mNoteEvents, mNumFrames,
             retEvents, corrupt, runs, calls, presetValues, status, outFile, pcmRead,
             modelLoaded, result, probe, diag>>

\* estimate, or the TempoCnn constructor, throws.
TempoThrown(msg) ==
    /\ pc' = "tempo_after"
    /\ tempoResult' = "thrown"
    /\ what' = msg

\* main up to the read of the input: --help, the required options, the two
\* boolean options.
TempoCliArgs ==
    /\ host = "tempo"
    /\ pc = "main"
    /\ IF args.help
       THEN /\ Exit(0, "")
            /\ tempo' = [tempo EXCEPT !.stdout = "usage"]
       ELSE IF ~(args.input /\ args.model)
       THEN /\ Exit(1, "")
            /\ tempo' = [tempo EXCEPT !.stdout = "usage"]
       ELSE IF parseBool(args.interpolate, "--interpolate", FALSE).error # ""
       THEN /\ Exit(1, parseBool(args.interpolate, "--interpolate", FALSE).error)
            /\ UNCHANGED tempo
       ELSE IF parseBool(args.localTempo, "--local-tempo", FALSE).error # ""
       THEN /\ Exit(1, parseBool(args.localTempo, "--local-tempo", FALSE).error)
            /\ UNCHANGED tempo
       ELSE /\ pc' = "tempo_read"
            /\ tempo' = [tempo EXCEPT
                            !.interpolate = parseBool(args.interpolate, "--interpolate", FALSE).value,
                            !.localTempo = parseBool(args.localTempo, "--local-tempo", FALSE).value]
            /\ UNCHANGED <<exitCode, stderr>>
    /\ UNCHANGED <<host, args, tempoResult, what, inputFile, nntvars>>

\* main: readFloat32LeFile and the empty check.
TempoCliReadInput ==
    /\ host = "tempo"
    /\ pc = "tempo_read"
    /\ \E file \in TempoPcmFiles :
          /\ inputFile' = file
          /\ \E rd \in {TempoIO_readFloat32LeFile(file)} :
                IF ~rd.ok THEN Exit(1, rd.error) /\ UNCHANGED tempo
                ELSE IF rd.samples = 0 THEN Exit(1, TempoEmptyMsg) /\ UNCHANGED tempo
                ELSE /\ tempo' = [tempo EXCEPT !.samples = rd.samples]
                     /\ pc' = "tempo_create"
                     /\ UNCHANGED <<exitCode, stderr>>
    /\ UNCHANGED <<host, args, tempoResult, what, nntvars>>

\* main: the TempoCnn constructor.
TempoCliCreate ==
    /\ host = "tempo"
    /\ pc = "tempo_create"
    /\ \E o \in {"loads", TempoSessionMsg, TempoLoadMsg} :
          IF o = "loads" THEN pc' = "tempo_estimate" /\ UNCHANGED <<tempoResult, what>>
          ELSE TempoThrown(o)
    /\ UNCHANGED <<host, args, exitCode, stderr, inputFile, tempo, nntvars>>

\* estimate up to the local tempo: the mel features, the global windows, the
\* model run, the averaged posterior and the global bpm.
TempoEstimateGlobal ==
    /\ host = "tempo"
    /\ pc = "tempo_estimate"
    /\ IF tempo.samples = 0
       THEN TempoThrown(TempoEmptyMsg) /\ UNCHANGED tempo
       ELSE IF computeMelSpectrogram(tempo.samples) <= 0
       THEN TempoThrown(TempoEstimateMsg) /\ UNCHANGED tempo
       ELSE IF NumWindows(computeMelSpectrogram(tempo.samples), kWindowFrames,
                          kGlobalHopFrames, FALSE) <= 0
       THEN TempoThrown(TempoWindowsMsg)
            /\ tempo' = [tempo EXCEPT !.totalFrames = computeMelSpectrogram(tempo.samples)]
       ELSE \E runs1 \in BOOLEAN :
               IF ~runs1
               THEN /\ TempoThrown(TempoShapeMsg)
                    /\ tempo' = [tempo EXCEPT !.totalFrames = computeMelSpectrogram(tempo.samples)]
               ELSE \E predictions \in
                        [1..NumWindows(computeMelSpectrogram(tempo.samples), kWindowFrames,
                                       kGlobalHopFrames, FALSE) -> TempoRows] :
                       \E averaged \in {averagePredictions(predictions, Len(predictions))} :
                          /\ tempo' = [tempo EXCEPT
                                 !.totalFrames = computeMelSpectrogram(tempo.samples),
                                 !.globalWindows = Len(predictions),
                                 !.modelRuns = @ + 1,
                                 !.averaged = averaged,
                                 !.bpm = classIndexToBpm(
                                            IF tempo.interpolate
                                            THEN Fixed(interpolateArgmax(averaged, argmax(averaged)))
                                            ELSE argmax(averaged) * QMicro),
                                 !.numLocal =
                                     IF tempo.localTempo
                                     THEN NumWindows(computeMelSpectrogram(tempo.samples),
                                                     kWindowFrames, kLocalHopFrames, TRUE)
                                     ELSE 0]
                          /\ IF tempo'.numLocal > 0
                             THEN pc' = "tempo_local_run" /\ UNCHANGED <<tempoResult, what>>
                             ELSE /\ pc' = "tempo_after"
                                  /\ tempoResult' = "returned"
                                  /\ UNCHANGED what
    /\ UNCHANGED <<host, args, exitCode, stderr, inputFile, nntvars>>

\* estimate: the model run over the local windows.
TempoLocalRunModel ==
    /\ host = "tempo"
    /\ pc = "tempo_local_run"
    /\ \E runs2 \in BOOLEAN :
          IF runs2
          THEN /\ pc' = "tempo_local_rows"
               /\ tempo' = [tempo EXCEPT !.modelRuns = @ + 1]
               /\ UNCHANGED <<tempoResult, what>>
          ELSE TempoThrown(TempoShapeMsg) /\ UNCHANGED tempo
    /\ UNCHANGED <<host, args, exitCode, stderr, inputFile, nntvars>>

\* estimate: one iteration of the loop of predictionRowsToBpmSeries, over
\* the row the model returned for the next local window.
TempoLocalRow ==
    /\ host = "tempo"
    /\ pc = "tempo_local_rows"
    /\ Len(tempo.localRaw) < tempo.numLocal
    /\ \E row \in TempoRows :
          tempo' = [tempo EXCEPT
                       !.localRaw = Append(@, predictionRowsToBpmSeries(<<row>>, 1)[1])]
    /\ UNCHANGED <<host, pc, args, exitCode, stderr, tempoResult, what, inputFile, nntvars>>

\* Mutant: the local stage replaces the global bpm by the first local one.
TempoLocalFinish_SetsBpm ==
    /\ host = "tempo"
    /\ pc = "tempo_local_rows"
    /\ Len(tempo.localRaw) = tempo.numLocal
    /\ \E localTempi \in {ClampSeries(movingAverageSame(tempo.localRaw, kLocalSmoothingWindow))} :
          tempo' = [tempo EXCEPT
                       !.localTempi = localTempi,
                       !.bpm = localTempi[1],
                       !.tempoMap = compressTempoPoints(localTempi,
                                                        kLocalHopFrames * kStftHopLength)]
    /\ pc' = "tempo_after"
    /\ tempoResult' = "returned"
    /\ UNCHANGED <<host, args, exitCode, stderr, what, inputFile, nntvars>>

\* estimate after predictionRowsToBpmSeries: the smoothing, the clamp, the
\* compression, the return.
TempoLocalFinish ==
    /\ host = "tempo"
    /\ pc = "tempo_local_rows"
    /\ Len(tempo.localRaw) = tempo.numLocal
    /\ \E localTempi \in {ClampSeries(movingAverageSame(tempo.localRaw, kLocalSmoothingWindow))} :
          tempo' = [tempo EXCEPT
                       !.localTempi = localTempi,
                       !.tempoMap = compressTempoPoints(localTempi,
                                                        kLocalHopFrames * kStftHopLength)]
    /\ pc' = "tempo_after"
    /\ tempoResult' = "returned"
    /\ UNCHANGED <<host, args, exitCode, stderr, what, inputFile, nntvars>>

\* main after estimate: the JSON on stdout, or the catch block.
TempoCliFinish ==
    /\ host = "tempo"
    /\ pc = "tempo_after"
    /\ IF tempoResult = "thrown" THEN Exit(1, what) /\ UNCHANGED tempo
       ELSE Exit(0, "") /\ tempo' = [tempo EXCEPT !.stdout = "json"]
    /\ UNCHANGED <<host, args, tempoResult, what, inputFile, nntvars>>

\* ------------------------------------------------------------------------
\* The library caller: one NeuralNoteTranscriber, several transcribe() calls
\* ------------------------------------------------------------------------
LibCall ==
    /\ host = "lib"
    /\ pc \in {"idle", "after"}
    /\ runs < MaxRuns
    /\ \E a \in Audios : audio' = a
    /\ runs' = runs + 1
    /\ pc' = "call"
    /\ result' = "none"
    /\ what' = ""
    /\ retEvents' = <<>>
    /\ UNCHANGED <<host, idx, cnn, mContoursPG, mNotesPG, mOnsetsPG, mNoteEvents,
                   mNumFrames, corrupt, calls, hostvars, diag>>

\* No file opened yet; TempoCnn and its result before estimate (the bpm of a
\* TempoEstimateResult is 120 until set); no helper applied.
NoFile == PcmFile(FALSE, -1, FALSE)
NoTempo ==
    [samples |-> 0, interpolate |-> FALSE, localTempo |-> FALSE, stdout |-> "",
     totalFrames |-> 0, globalWindows |-> 0, modelRuns |-> 0, bpm |-> 120 * QMicro,
     numLocal |-> 0, localRaw |-> <<>>, localTempi |-> <<>>, tempoMap |-> <<>>,
     averaged |-> <<>>]
NoProbe == [fn |-> "none"]
NoDiag == [env |-> FALSE, cache |-> "unread", lines |-> 0]

InitTranscriber ==
    /\ idx = 0
    /\ audio = EmptyAudio
    /\ cnn = CnnConstructed
    /\ mContoursPG = <<>>
    /\ mNotesPG = <<>>
    /\ mOnsetsPG = <<>>
    /\ mNoteEvents = <<>>
    /\ mNumFrames = 0
    /\ result = "none"
    /\ what = ""
    /\ retEvents = <<>>
    /\ corrupt = FALSE
    /\ runs = 0
    /\ calls = <<>>

InitHost ==
    /\ presetValues = <<>>
    /\ exitCode = -1
    /\ stderr = ""
    /\ status = ""
    /\ outFile = "untouched"
    /\ pcmRead = 0
    /\ modelLoaded = FALSE
    /\ tempoResult = "none"
    /\ inputFile = NoFile
    /\ tempo = NoTempo
    /\ probe = NoProbe

\* A library caller has constructed its NeuralNoteTranscriber, and the
\* constructor has called emit().
DiagAfterConstructor(env) ==
    [env |-> env, cache |-> IF env THEN "on" ELSE "off", lines |-> IF env THEN 1 ELSE 0]

Init ==
    /\ InitTranscriber
    /\ InitHost
    /\ \/ /\ host = "lib"
          /\ pc = "idle"
          /\ args = <<>>
          /\ diag = DiagAfterConstructor(FALSE)
       \/ /\ host = "cli"
          /\ pc = "main"
          /\ args \in ArgVectors
          /\ diag = NoDiag
       \/ /\ host = "jni"
          /\ pc = "main"
          /\ args \in JniArgVectors
          /\ diag = NoDiag
       \/ /\ host = "tempo"
          /\ pc = "main"
          /\ args \in TempoArgVectors
          /\ diag = NoDiag

Next ==
    \/ LibCall
    \/ CliArgs
    \/ CliReadInput
    \/ CliCreate
    \/ CliFinish
    \/ JniBegin
    \/ JniFinish
    \/ TempoCliArgs
    \/ TempoCliReadInput
    \/ TempoCliCreate
    \/ TempoEstimateGlobal
    \/ TempoLocalRunModel
    \/ TempoLocalRow
    \/ TempoLocalFinish
    \/ TempoCliFinish
    \/ Transcribe
    \/ ComputeFeatures
    \/ WarmupZero
    \/ WarmupCqt
    \/ StreamInference
    \/ TailFlush
    \/ NotesConvert

Spec == Init /\ [][Next]_vars

\* ------------------------------------------------------------------------
\* The helper functions of the tempo pipeline, applied on their own to
\* inputs drawn from bounded sets
\* ------------------------------------------------------------------------
\* A mel tensor of totalFrames frames whose columns are distinct and not zero.
MelTensor(totalFrames) ==
    [totalFrames |-> totalFrames,
     data |-> [mel \in 1..MelBands |-> [t \in 1..totalFrames |-> 10 * mel + t]]]

ProbeSlidingWindows ==
    /\ host = "pure"
    /\ probe = NoProbe
    /\ \E totalFrames \in 1..MaxT, windowFrames \in 1..MaxW, hopFrames \in 0..MaxHop,
          zeroPad \in BOOLEAN :
          probe' = [fn |-> "toSlidingWindows", features |-> MelTensor(totalFrames),
                    windowFrames |-> windowFrames, hopFrames |-> hopFrames,
                    zeroPad |-> zeroPad,
                    out |-> toSlidingWindows(MelTensor(totalFrames), windowFrames,
                                             hopFrames, zeroPad)]
    /\ UNCHANGED <<host, pc, idx, audio, cnn, mContoursPG, mNotesPG, mOnsetsPG, mNoteEvents,
                   mNumFrames, result, what, retEvents, corrupt, runs, calls, args,
                   presetValues, exitCode, stderr, status, outFile, pcmRead, modelLoaded,
                   tempoResult, inputFile, tempo, diag>>

\* The bpm values of the series compressed on their own: 120, a value a
\* quarter of a millionth under 120.75, 120.5, 140, and values outside
\* [20, 300]; the hops, in samples, are 0.046 s, 0.372 s and 1.486 s.
ProbeBpmValues ==
    {120 * QMicro, 120 * QMicro + 3 * Micro - 1, 120 * QMicro + 2 * Micro,
     140 * QMicro, 10 * QMicro, 400 * QMicro}
ProbeHops == {kStftHopLength, 8 * kStftHopLength, kLocalHopFrames * kStftHopLength}

ProbeCompress ==
    /\ host = "pure"
    /\ probe = NoProbe
    /\ \E n \in 1..MaxPoints, hopSamples \in ProbeHops :
          \E bpmSeries \in [1..n -> ProbeBpmValues] :
             probe' = [fn |-> "compressTempoPoints", bpmSeries |-> bpmSeries,
                       hopSamples |-> hopSamples,
                       out |-> compressTempoPoints(bpmSeries, hopSamples)]
    /\ UNCHANGED <<host, pc, idx, audio, cnn, mContoursPG, mNotesPG, mOnsetsPG, mNoteEvents,
                   mNumFrames, result, what, retEvents, corrupt, runs, calls, args,
                   presetValues, exitCode, stderr, status, outFile, pcmRead, modelLoaded,
                   tempoResult, inputFile, tempo, diag>>

\* The posteriors of the vectors interpolated on their own, in hundredths.
ProbePosteriors == {10, 50, 90, 100}

\* The class posteriors refined as estimate refines the averaged ones: short
\* vectors of numbers and NaN, and rows of kTempoClasses posteriors peaking
\* at the first classes, in the middle and at the last classes.
ProbeAveraged ==
    UNION {[0..(size - 1) -> ProbePosteriors \cup {NaN}] : size \in 1..MaxValues}
    \cup {PeakRow(c) : c \in {0, 1, 90, kTempoClasses - 2, kTempoClasses - 1}}
    \cup {NaNRow}

\* estimate from argmax to classIndexToBpm, with and without interpolate.
ProbeRefine ==
    /\ host = "pure"
    /\ probe = NoProbe
    /\ \E averaged \in ProbeAveraged :
          \E coarseIndex \in {argmax(averaged)} :
             \E finalIndex \in {interpolateArgmax(averaged, coarseIndex)} :
                probe' = [fn |-> "refine", values |-> averaged, coarseIndex |-> coarseIndex,
                          finalIndex |-> finalIndex,
                          bpmCoarse |-> classIndexToBpm(coarseIndex * QMicro),
                          bpmFine |-> classIndexToBpm(Fixed(finalIndex))]
    /\ UNCHANGED <<host, pc, idx, audio, cnn, mContoursPG, mNotesPG, mOnsetsPG, mNoteEvents,
                   mNumFrames, result, what, retEvents, corrupt, runs, calls, args,
                   presetValues, exitCode, stderr, status, outFile, pcmRead, modelLoaded,
                   tempoResult, inputFile, tempo, diag>>

\* The series smoothed on their own: values whose sums every window width
\* tried divides, so that the quotients are exact, and the widths.
ProbeSeriesValues == {0, 105, 210}
ProbeWindowSizes == {0, 2, 4, 5, 6}

ProbeMovingAverage ==
    /\ host = "pure"
    /\ probe = NoProbe
    /\ \E n \in 0..MaxSeries, windowSize \in ProbeWindowSizes :
          \E values \in [1..n -> ProbeSeriesValues] :
             probe' = [fn |-> "movingAverageSame", values |-> values,
                       windowSize |-> windowSize,
                       out |-> movingAverageSame(values, windowSize)]
    /\ UNCHANGED <<host, pc, idx, audio, cnn, mContoursPG, mNotesPG, mOnsetsPG, mNoteEvents,
                   mNumFrames, result, what, retEvents, corrupt, runs, calls, args,
                   presetValues, exitCode, stderr, status, outFile, pcmRead, modelLoaded,
                   tempoResult, inputFile, tempo, diag>>

\* _concat() on arrays of floats.  Element k of the OnsetInputNet output
\* computed `age` frames ago, element i of the NoteNet output of the current
\* frame, and element p of mConcatArray as the previous frame left it.
OnsetInputFloat(age, k) == <<"onset_input", age, k>>
NoteFloat(i) == <<"note", i>>
StaleFloat(p) == <<"stale", p>>

\* The body of the loop of _concat() for note bin i.
\* Mutant: the rows of mConcatArray are 32 wide.
ConcatBin_Stride32(array, noteOutputs, slot, i) ==
    [p \in DOMAIN array |->
        IF p = i * 32 THEN noteOutputs[i]
        ELSE IF p >= i * 32 + 1 /\ p < i * 32 + 1 + 32 THEN slot[i * 32 + (p - (i * 32 + 1))]
        ELSE array[p]]

ConcatBin(array, noteOutputs, slot, i) ==
    [p \in DOMAIN array |->
        IF p = i * 33 THEN noteOutputs[i]
        ELSE IF p >= i * 33 + 1 /\ p < i * 33 + 1 + 32 THEN slot[i * 32 + (p - (i * 33 + 1))]
        ELSE array[p]]

\* The loop of _concat() from bin i on.
RECURSIVE ConcatFrom(_, _, _, _)
ConcatFrom(array, noteOutputs, slot, i) ==
    IF i >= NUM_FREQ_OUT \/ DOMAIN array = {} THEN array
    ELSE ConcatFrom(ConcatBin(array, noteOutputs, slot, i), noteOutputs, slot, i + 1)

\* _concat(): mConcatArray once the loop has run.
ConcatArray(array, noteOutputs, concat2Buffer, concat2Idx) ==
    ConcatFrom(array, noteOutputs,
               concat2Buffer[_wrapIndex(concat2Idx + 1, mNumConcat2Stored)], 0)

\* mConcat2CircularBuffer when the head is at concat2Idx and the ring has
\* been written in every frame for at least its depth: the slot at the head
\* was written mNumConcat2Stored frames ago, the one before it in the last
\* frame.
RingBeforeFrame(concat2Idx) ==
    [j \in 0..(mNumConcat2Stored - 1) |->
        [k \in 0..(32 * NUM_FREQ_OUT - 1) |->
            OnsetInputFloat(IF j = concat2Idx THEN mNumConcat2Stored
                            ELSE (concat2Idx - j) % mNumConcat2Stored, k)]]

\* The copy of the OnsetInputNet output into the slot at the head, the first
\* step of _runModels().
OnsetInputCopy(concat2Buffer, concat2Idx) ==
    [concat2Buffer EXCEPT ![concat2Idx] =
        [k \in 0..(32 * NUM_FREQ_OUT - 1) |-> OnsetInputFloat(0, k)]]

\* _runModels() from the OnsetInputNet copy to _concat(), on arrays of floats.
ProbeConcat ==
    /\ host = "pure"
    /\ probe = NoProbe
    /\ \E concat2Idx \in 0..(mNumConcat2Stored - 1) :
          probe' = [fn |-> "_concat", concat2Idx |-> concat2Idx,
                    out |-> ConcatArray([p \in 0..(33 * NUM_FREQ_OUT - 1) |-> StaleFloat(p)],
                                        [i \in 0..(NUM_FREQ_OUT - 1) |-> NoteFloat(i)],
                                        OnsetInputCopy(RingBeforeFrame(concat2Idx), concat2Idx),
                                        concat2Idx)]
    /\ UNCHANGED <<host, pc, idx, audio, cnn, mContoursPG, mNotesPG, mOnsetsPG, mNoteEvents,
                   mNumFrames, result, what, retEvents, corrupt, runs, calls, args,
                   presetValues, exitCode, stderr, status, outFile, pcmRead, modelLoaded,
                   tempoResult, inputFile, tempo, diag>>

ProbeInterpolate ==
    /\ host = "pure"
    /\ probe = NoProbe
    /\ \E size \in 1..MaxValues :
          \E values \in [0..(size - 1) -> ProbePosteriors], index \in 0..(size - 1) :
             probe' = [fn |-> "interpolateArgmax", values |-> values, index |-> index,
                       out |-> interpolateArgmax(values, index)]
    /\ UNCHANGED <<host, pc, idx, audio, cnn, mContoursPG, mNotesPG, mOnsetsPG, mNoteEvents,
                   mNumFrames, result, what, retEvents, corrupt, runs, calls, args,
                   presetValues, exitCode, stderr, status, outFile, pcmRead, modelLoaded,
                   tempoResult, inputFile, tempo, diag>>

PureInit ==
    /\ InitTranscriber
    /\ InitHost
    /\ host = "pure"
    /\ pc = "idle"
    /\ args = <<>>
    /\ diag = NoDiag

PureNext ==
    \/ ProbeSlidingWindows
    \/ ProbeCompress
    \/ ProbeInterpolate
    \/ ProbeConcat
    \/ ProbeMovingAverage
    \/ ProbeRefine

PureSpec == PureInit /\ [][PureNext]_vars

\* ------------------------------------------------------------------------
\* The note pipeline under both values of GH_NEURALNOTE_CPP_DIAG, in a
\* process whose environment may change while it runs
\* ------------------------------------------------------------------------
\* The rest of the process sets or clears GH_NEURALNOTE_CPP_DIAG: what a later
\* std::getenv would return changes, the static of enabled() does not.
Setenv ==
    /\ diag' = [diag EXCEPT !.env = ~@]
    /\ UNCHANGED <<host, pc, idx, audio, cnn, mContoursPG, mNotesPG, mOnsetsPG, mNoteEvents,
                   mNumFrames, result, what, retEvents, corrupt, runs, calls, hostvars>>

DiagInit ==
    /\ InitTranscriber
    /\ InitHost
    /\ \E env \in BOOLEAN :
          \/ /\ host = "lib"
             /\ pc = "idle"
             /\ args = <<>>
             /\ diag = DiagAfterConstructor(env)
          \/ /\ host = "cli"
             /\ pc = "main"
             /\ args \in ArgVectors
             /\ diag = [NoDiag EXCEPT !.env = env]

DiagNext ==
    \/ Setenv
    \/ LibCall
    \/ CliArgs
    \/ CliReadInput
    \/ CliCreate
    \/ CliFinish
    \/ Transcribe
    \/ ComputeFeatures
    \/ WarmupZero
    \/ WarmupCqt
    \/ StreamInference
    \/ TailFlush
    \/ NotesConvert

DiagSpec == DiagInit /\ [][DiagNext]_vars

\* ------------------------------------------------------------------------
\* Properties of the streaming driver
\* ------------------------------------------------------------------------
Phases == {"warmup_zero", "warmup_cqt", "stream_inference", "tail_flush"}
Warmups == {"warmup_zero", "warmup_cqt"}
Finished == pc \in {"notes_convert", "after"} /\ result \in {"none", "returned"}
            /\ (pc = "after" => result = "returned")

\* C1: for N >= L, when transcribeToMIDI finishes each posteriorgram has
\* exactly N rows, and row r holds the outputs of the frameInference call that
\* was fed CQT frame r+L (r+L < N) or an all-zero frame (r+L >= N).
C1_RowsAligned ==
    (Finished /\ mNumFrames >= mTotalLookahead) =>
        /\ Len(mOnsetsPG) = mNumFrames
        /\ Len(mNotesPG) = mNumFrames
        /\ Len(mContoursPG) = mNumFrames
        /\ \A r \in 0..(mNumFrames - 1) :
              \E k \in DOMAIN calls :
                 /\ calls[k].row = r
                 /\ calls[k].input = (IF r + mTotalLookahead < mNumFrames
                                      THEN CqtFrame(r + mTotalLookahead) ELSE ZeroVec)
                 /\ mOnsetsPG[r + 1].v = calls[k].outOnsets
                 /\ mNotesPG[r + 1].v = calls[k].outNotes
                 /\ mContoursPG[r + 1].v = calls[k].outContours

C1_Witness ==
    /\ pc = "after"
    /\ result = "returned"
    /\ mNumFrames > mTotalLookahead
    /\ Len(calls) = 2 * mTotalLookahead + mNumFrames

\* C2 as stated: every row index in [0, N) is the output target of at most one
\* frameInference call of the transcription, warmups included.
C2_NoRowTwice ==
    \A r \in 0..(mNumFrames - 1) :
        Cardinality({k \in DOMAIN calls : calls[k].row = r}) <= 1

\* C2 amended: the warmup calls all target row 0, and apart from them every
\* row index in [0, N) is the output target of at most one frameInference call.
C2_NoRowTwiceAfterWarmup ==
    /\ \A k \in DOMAIN calls : calls[k].phase \in Warmups => calls[k].row = 0
    /\ \A r \in 0..(mNumFrames - 1) :
          Cardinality({k \in DOMAIN calls :
                          calls[k].row = r /\ calls[k].phase \notin Warmups}) <= 1

C2_Witness ==
    /\ pc = "after"
    /\ result = "returned"
    /\ mNumFrames > mTotalLookahead
    /\ Cardinality({k \in DOMAIN calls : calls[k].row = 0}) = 2 * mTotalLookahead + 1
    /\ \A r \in 1..(mNumFrames - 1) :
          Cardinality({k \in DOMAIN calls : calls[k].row = r}) = 1

\* The schedule of a transcription of n frames: what the k-th frameInference
\* call is fed and which row index it is given.
StreamCalls(n) == IF n > mTotalLookahead THEN n - mTotalLookahead ELSE 0
TotalCalls(n) == 3 * mTotalLookahead + StreamCalls(n)
ExpectedCall(n, k) ==
    IF k <= mTotalLookahead
    THEN [phase |-> "warmup_zero", src |-> -1, row |-> 0]
    ELSE IF k <= 2 * mTotalLookahead
    THEN [phase |-> "warmup_cqt", src |-> k - mTotalLookahead - 1, row |-> 0]
    ELSE IF k <= 2 * mTotalLookahead + StreamCalls(n)
    THEN [phase |-> "stream_inference", src |-> k - mTotalLookahead - 1,
          row |-> k - 2 * mTotalLookahead - 1]
    ELSE [phase |-> "tail_flush", src |-> -1,
          row |-> (n - mTotalLookahead + (k - 2 * mTotalLookahead - StreamCalls(n) - 1))
                     % SizeModulus]

\* C3: the frameInference calls of one transcribeToMIDI occur in the order
\* zero warmup, CQT warmup (frames 0..L-1), streaming (frame i to row i-L),
\* tail flush (zero input to rows N-L..N-1, indices in size_t arithmetic), and
\* the note conversion runs only after the last tail-flush call.
C3_Schedule ==
    /\ Len(calls) <= TotalCalls(mNumFrames)
    /\ \A k \in DOMAIN calls :
          /\ [phase |-> calls[k].phase, src |-> calls[k].src, row |-> calls[k].row]
                = ExpectedCall(mNumFrames, k)
          /\ calls[k].src = -1 => calls[k].input = ZeroVec
          /\ (calls[k].src >= 0 /\ calls[k].src < mNumFrames)
                => calls[k].input = CqtFrame(calls[k].src)
    /\ (pc = "notes_convert" \/ result = "returned") => Len(calls) = TotalCalls(mNumFrames)

C3_Witness ==
    /\ pc = "after"
    /\ result = "returned"
    /\ mNumFrames > mTotalLookahead
    /\ Len(calls) = TotalCalls(mNumFrames)
    /\ ~corrupt

\* The values the sub-networks wrote into the rings in the j-th call since the
\* reset, as functions of the inputs fed so far.
InputsUpTo(j) == [i \in 1..j |-> calls[i].input]
ContourWritten(j) == Forward("contour", InputsUpTo(j))
NoteWritten(j) == Forward("note", [i \in 1..j |-> ContourWritten(i)])
Concat2Written(j) == Forward("onset_input", InputsUpTo(j))
Delayed(Written(_), k, depth) ==
    IF k - (depth - 1) >= 1 THEN Written(k - (depth - 1)) ELSE ZeroVec

\* C4: in every frameInference call the slot read from each ring (head+1 mod
\* depth) holds the value written depth-1 calls earlier, or zeros when fewer
\* than depth-1 calls have happened since the reset.
C4_RingDelay ==
    \A k \in DOMAIN calls :
        /\ calls[k].outContours = Delayed(ContourWritten, k, mNumContourStored)
        /\ calls[k].outNotes = Delayed(NoteWritten, k, mNumNoteStored)
        /\ calls[k].concat2 = Delayed(Concat2Written, k, mNumConcat2Stored)

C4_Witness ==
    /\ Len(calls) >= 2 * mNumContourStored
    /\ Len(calls) >= 2 * mNumNoteStored
    /\ Len(calls) >= 2 * mNumConcat2Stored
    /\ calls[Len(calls)].outContours # ZeroVec

AllZero(buffer) == \A i \in DOMAIN buffer : buffer[i] = ZeroVec

\* C5: at the first frameInference call of every transcribe invocation, after
\* any earlier transcriptions on the instance, the three rings hold only zeros
\* and the three heads are 0.
C5_ResetBetween ==
    (pc \in Phases /\ calls = <<>>) =>
        /\ AllZero(cnn.mContoursCircularBuffer)
        /\ AllZero(cnn.mNotesCircularBuffer)
        /\ AllZero(cnn.mConcat2CircularBuffer)
        /\ cnn.mContourIdx = 0
        /\ cnn.mNoteIdx = 0
        /\ cnn.mConcat2Idx = 0

C5_Witness ==
    /\ pc \in Phases
    /\ calls = <<>>
    /\ runs >= 2
    /\ cnn.mConcatArray # ZeroVec

\* C6: a row of the wrong width makes frameInference throw; the exception
\* leaves transcribeToMIDI and transcribe, no later frameInference call or
\* note conversion happens in that transcription, and no events are returned.
C6_SizeMismatchFatal ==
    /\ [](\A k \in DOMAIN calls :
             calls[k].wC = NUM_FREQ_IN /\ calls[k].wN = NUM_FREQ_OUT
             /\ calls[k].wO = NUM_FREQ_OUT)
    /\ [](what = OutputSizeMsg =>
             /\ result = "thrown"
             /\ pc \notin Phases \cup {"call", "features", "notes_convert"}
             /\ retEvents = <<>>
             /\ mNoteEvents = <<>>)
    /\ [][(what = OutputSizeMsg /\ runs' = runs) =>
             /\ calls' = calls
             /\ mNoteEvents' = mNoteEvents
             /\ retEvents' = retEvents
             /\ what' = what]_vars

C6_Witness ==
    /\ what = OutputSizeMsg
    /\ pc = "after"
    /\ Len(calls) >= 2 * mTotalLookahead

\* ------------------------------------------------------------------------
\* Properties of the hosts
\* ------------------------------------------------------------------------
\* C7: the notes CLI ends with 0 exactly when the transcription succeeded with
\* at least one event and the JSON was written, with 2 exactly when it
\* succeeded with zero events, and with 1 on every other outcome.
C7_ExitCodes ==
    (host = "cli" /\ pc \in {"exit", "crashed"}) =>
        /\ exitCode = 0 <=> (result = "returned" /\ retEvents # <<>> /\ outFile = "written")
        /\ exitCode = 2 <=> (result = "returned" /\ retEvents = <<>>)
        /\ exitCode \notin {0, 2} => exitCode = 1

\* C8: the output JSON is opened only after the notes pipeline (and, in the
\* host binding, the tempo pipeline) has returned normally: never on a run in
\* which argument validation, PCM reading, model loading or the notes
\* pipeline failed.
C8_NoPartialSuccess ==
    outFile # "untouched" =>
        /\ result = "returned"
        /\ modelLoaded
        /\ runs = 1
        /\ host = "cli" => (CheckArgs(args).error = "" /\ pcmRead = 1)
        /\ host = "jni" => (args = JniPlainArgs /\ pcmRead = 2 /\ tempoResult = "returned")

C8_Witness ==
    /\ host = "cli"
    /\ pc = "exit"
    /\ outFile = "written"

\* A sensitivity given as a number outside [0,1].
GivenOutside(a) == a.kind = "num" /\ (a.v < 0 \/ a.v > SensOne)
\* A sensitivity given as a number whose float is outside [0,1].
FloatOutside(a) == a.kind = "num" /\ (ToFloat(a.v) < 0 \/ ToFloat(a.v) > SensOne)
RequiredGiven == args.input /\ args.output /\ args.model

\* C9 as stated: a finite --note-sensitivity or --split-sensitivity outside
\* [0,1], with the required arguments present, ends the CLI with code 1 and a
\* message containing "in [0,1]".
C9_RangeRejected ==
    (host = "cli" /\ pc # "main" /\ RequiredGiven
       /\ (GivenOutside(args.noteSens) \/ GivenOutside(args.splitSens)))
    => (exitCode = 1 /\ stderr \in RangeMsgs)

\* C9 amended: a --note-sensitivity or --split-sensitivity whose value as a
\* float is outside [0,1], with the required arguments present, ends the CLI
\* with code 1; the message contains "in [0,1]" when the preset is accepted
\* and every override parses.
C9_FloatRangeRejected ==
    (host = "cli" /\ pc # "main" /\ RequiredGiven
       /\ (FloatOutside(args.noteSens) \/ FloatOutside(args.splitSens)))
    => /\ exitCode = 1
       /\ (args.preset # "fast" /\ ParseError(args) = "") => stderr \in RangeMsgs

C9_Witness ==
    /\ host = "cli"
    /\ pc = "exit"
    /\ args.splitSens = Num(SensOne + (SensOne \div 2))
    /\ args.noteSens = Absent
    /\ stderr = SplitSensRangeMsg
    /\ exitCode = 1

\* C10: when the two pitch bounds resolve to nonzero values with
\* maxPitchHz < minPitchHz, the CLI ends with code 1 and has neither read the
\* PCM file nor loaded a model.
C10_PitchOrderRejected ==
    (host = "cli" /\ pc # "main"
       /\ ParseDoubleOk(args.minPitch) /\ ParseDoubleOk(args.maxPitch)
       /\ ResolvePreset(args).minPitchHz # 0
       /\ ResolvePreset(args).maxPitchHz # 0
       /\ ResolvePreset(args).maxPitchHz < ResolvePreset(args).minPitchHz)
    => (pc = "exit" /\ exitCode = 1 /\ pcmRead = 0 /\ ~modelLoaded)

C10_Witness ==
    /\ host = "cli"
    /\ pc = "exit"
    /\ args.minPitch = Num(Hz(4000))
    /\ args.maxPitch = Num(Hz(100))
    /\ stderr = "--max-pitch-hz must be >= --min-pitch-hz"
    /\ exitCode = 1
    /\ pcmRead = 0

\* ------------------------------------------------------------------------
\* Properties of the two command lines on their input file
\* ------------------------------------------------------------------------
\* The messages of the programs that contain the word "empty".
ContainsEmpty ==
    {EmptyAudioMsg, TempoEmptyMsg, "Input NeuralNote audio is empty",
     "Input Tempo-CNN audio is empty"}

ZeroByteFile == PcmFile(TRUE, 0, FALSE)

\* C11: either CLI, run on a PCM input file of zero bytes, exits with code 1
\* and a message on stderr that contains the word "empty".
C11_EmptyFileRejected ==
    (host \in {"cli", "tempo"} /\ pc = "exit" /\ inputFile = ZeroByteFile) =>
        (exitCode = 1 /\ stderr \in ContainsEmpty)

\* ------------------------------------------------------------------------
\* Properties of the tempo pipeline
\* ------------------------------------------------------------------------
\* estimate has been called on the samples read and has left its global part.
EstimateCalled ==
    /\ host = "tempo"
    /\ tempo.samples > 0
    /\ pc \in {"tempo_local_run", "tempo_local_rows", "tempo_after", "exit"}
    /\ what \notin {TempoSessionMsg, TempoLoadMsg}

\* C12 as stated: for a non-empty input of fewer than 1024 samples the mel
\* tensor is empty (totalFrames = 0) and estimate fails without running the
\* tempo model.
C12_ShortInputFails ==
    (EstimateCalled /\ tempo.samples < kNfft) =>
        (tempo.totalFrames = 0 /\ tempo.modelRuns = 0 /\ tempoResult = "thrown")

\* C12, amended: for every non-empty input, one of fewer than 1024 samples
\* included, the mel tensor has 1 + floor(n / 512) >= 1 frames, estimate does
\* not fail at the mel stage, and unless the model run itself fails it
\* returns after running the tempo model on one global window.
C12_ShortInputFramed ==
    EstimateCalled =>
        /\ tempo.totalFrames = 1 + tempo.samples \div kStftHopLength
        /\ what # TempoEstimateMsg
        /\ (tempo.samples < kNfft /\ tempoResult # "thrown" =>
                tempo.modelRuns >= 1 /\ tempo.globalWindows = 1)

C12_Witness ==
    /\ EstimateCalled
    /\ tempo.samples = kNfft - 1
    /\ pc = "exit"
    /\ exitCode = 0
    /\ tempo.modelRuns >= 1

\* The frames T' the windows are cut from: T + W with zero padding, T
\* without, raised to W when smaller.
PaddedFrames(T, W, zeroPad) ==
    IF (IF zeroPad THEN T + W ELSE T) < W THEN W ELSE IF zeroPad THEN T + W ELSE T

\* Column k (from 0) of a band of the padded tensor: with zero padding the
\* input lies behind W / 2 zero frames, without it at the front; every other
\* column is zero.
PaddedColumn(band, k, W, zeroPad) ==
    IF zeroPad
    THEN (IF k >= W \div 2 /\ k < W \div 2 + Len(band) THEN band[k - W \div 2 + 1] ELSE 0)
    ELSE (IF k < Len(band) THEN band[k + 1] ELSE 0)

\* The windows of the probe: their number, the single window of a short
\* input, and window n as the columns from n * hop on.
WindowsCutAt(hop) ==
    probe.fn = "toSlidingWindows" =>
        /\ probe.out.numWindows =
               (PaddedFrames(probe.features.totalFrames, probe.windowFrames, probe.zeroPad)
                    - probe.windowFrames) \div Max(1, probe.hopFrames) + 1
        /\ Len(probe.out.data) = probe.out.numWindows
        /\ (probe.features.totalFrames < probe.windowFrames /\ ~probe.zeroPad =>
               /\ probe.out.numWindows = 1
               /\ \A mel \in 1..MelBands, k \in 1..probe.windowFrames :
                      probe.out.data[1][mel][k] =
                          IF k <= probe.features.totalFrames
                          THEN probe.features.data[mel][k] ELSE 0)
        /\ \A n \in 0..(probe.out.numWindows - 1), mel \in 1..MelBands,
              k \in 0..(probe.windowFrames - 1) :
               probe.out.data[n + 1][mel][k + 1] =
                   PaddedColumn(probe.features.data[mel], n * hop + k,
                                probe.windowFrames, probe.zeroPad)

\* C13 as stated: toSlidingWindows returns N = floor((T' - W) / max(1, H)) + 1
\* windows; an input with T < W and no zero padding yields one window, the
\* input followed by zeros; window n is columns [n*H, n*H + W) of the padded
\* tensor.
C13_WindowsAtHop == WindowsCutAt(probe.hopFrames)

\* C13, amended: the same, window n being columns
\* [n*max(1,H), n*max(1,H) + W) of the padded tensor.
C13_WindowsAtClampedHop == WindowsCutAt(Max(1, probe.hopFrames))

C13_Witness ==
    /\ probe.fn = "toSlidingWindows"
    /\ probe.hopFrames = 0
    /\ probe.zeroPad
    /\ probe.out.numWindows >= 3

\* C14: every point of a TempoMap returned by estimate has 20 <= bpm <= 300,
\* and the points are strictly increasing in timeSeconds, whatever rows the
\* tempo model returned.
C14_TempoMapBounded ==
    host = "tempo" =>
        \A i \in 1..Len(tempo.tempoMap) :
            /\ tempo.tempoMap[i].bpm >= 20 * Micro
            /\ tempo.tempoMap[i].bpm <= 300 * Micro
            /\ (i > 1 => tempo.tempoMap[i].timeSeconds > tempo.tempoMap[i - 1].timeSeconds)

\* A map of several points, one of them held at the lower limit.
C14_Witness ==
    /\ host = "tempo"
    /\ tempoResult = "returned"
    /\ Len(tempo.tempoMap) >= 3
    /\ \E i \in 1..Len(tempo.tempoMap) : tempo.tempoMap[i].bpm = 20 * Micro
    /\ \E i \in 1..Len(tempo.localRaw) : tempo.localRaw[i] = 285 * QMicro

\* The raw point of index i (from 1) of the series compressed: the time of
\* the window and the bpm held to [20, 300], both rounded to 6 decimals.
RoundedRaw(i) ==
    [timeSeconds |-> RoundedTime(i - 1, probe.hopSamples),
     bpm |-> (Max(20 * QMicro, Min(300 * QMicro, probe.bpmSeries[i])) + 2) \div 4]

\* The point accepted last before time t.
LastAccepted(t) ==
    probe.out[CHOOSE j \in 1..Len(probe.out) :
                  /\ probe.out[j].timeSeconds < t
                  /\ \A k \in 1..Len(probe.out) :
                         probe.out[k].timeSeconds < t =>
                             probe.out[k].timeSeconds <= probe.out[j].timeSeconds]

BothBelow(current, last) ==
    /\ current.timeSeconds - last.timeSeconds < 700000
    /\ Abs(current.bpm - last.bpm) < 750000

\* C15: compressTempoPoints keeps the first raw point; consecutive points of
\* its output are 0.7 s apart or differ by 0.75 bpm or more; a raw point is
\* dropped exactly when both deltas against the last accepted point are below
\* the thresholds, on values rounded to 6 decimals.
C15_RunCompression ==
    probe.fn = "compressTempoPoints" =>
        /\ Len(probe.out) >= 1
        /\ probe.out[1] = RoundedRaw(1)
        /\ \A j \in 2..Len(probe.out) : ~BothBelow(probe.out[j], probe.out[j - 1])
        /\ \A j \in 1..Len(probe.out) :
               \E i \in 1..Len(probe.bpmSeries) : probe.out[j] = RoundedRaw(i)
        /\ \A i \in 2..Len(probe.bpmSeries) :
               (\A j \in 1..Len(probe.out) : probe.out[j] # RoundedRaw(i))
                   <=> BothBelow(RoundedRaw(i), LastAccepted(RoundedRaw(i).timeSeconds))

\* A series in which a point is kept only because its rounded bpm is 0.75
\* above the last accepted one, and another is dropped.
C15_Witness ==
    /\ probe.fn = "compressTempoPoints"
    /\ probe.hopSamples = kStftHopLength
    /\ probe.bpmSeries = <<120 * QMicro, 120 * QMicro + 3 * Micro - 1, 120 * QMicro + 2 * Micro>>
    /\ Len(probe.out) = 2
    /\ probe.out[2].bpm = 120 * Micro + 750000

\* estimate has returned a TempoMap for local windows whose argmax was the
\* class of 120 bpm every time.
AllWindowsAt120 ==
    /\ host = "tempo"
    /\ tempoResult = "returned"
    /\ tempo.localTempo
    /\ tempo.numLocal > 0
    /\ Len(tempo.localRaw) = tempo.numLocal
    /\ \A i \in 1..Len(tempo.localRaw) : tempo.localRaw[i] = 120 * QMicro

\* C16 as stated: when every local window's argmax is 120 bpm, every point of
\* the TempoMap has bpm in [119, 121].
C16_AllNear120 ==
    AllWindowsAt120 =>
        \A j \in 1..Len(tempo.tempoMap) :
            tempo.tempoMap[j].bpm >= 119 * Micro /\ tempo.tempoMap[j].bpm <= 121 * Micro

\* The windows among n-2 .. n+2 that exist, n counted from 0.
InRangeNeighbours(n) == Cardinality({k \in (n - 2)..(n + 2) : k >= 0 /\ k < tempo.numLocal})

\* C16, amended: when every local window's argmax is 120 bpm, the point of
\* window n has bpm 120 * k / 5, k being the number of windows among
\* n-2 .. n+2 that exist: 120 (so within [119, 121]) for the windows two or
\* more away from both ends, 72 or 96 (48, 24 in shorter series) at the ends.
C16_Near120AwayFromEnds ==
    AllWindowsAt120 =>
        /\ Len(tempo.tempoMap) >= 1
        /\ \A j \in 1..Len(tempo.tempoMap) :
               \E n \in 0..(tempo.numLocal - 1) :
                  /\ tempo.tempoMap[j].timeSeconds =
                         RoundedTime(n, kLocalHopFrames * kStftHopLength)
                  /\ tempo.tempoMap[j].bpm = 24 * Micro * InRangeNeighbours(n)
                  /\ (n >= 2 /\ n <= tempo.numLocal - 3 =>
                         /\ tempo.tempoMap[j].bpm >= 119 * Micro
                         /\ tempo.tempoMap[j].bpm <= 121 * Micro)

C16_Witness ==
    /\ AllWindowsAt120
    /\ tempo.numLocal = 5
    /\ Len(tempo.tempoMap) = 5
    /\ tempo.tempoMap[1].bpm = 72 * Micro
    /\ tempo.tempoMap[3].bpm = 120 * Micro

\* The least integer not below x / d (x >= 0, d > 0).
CeilDiv(x, d) == (x + d - 1) \div d

\* C17: for a non-empty input of n samples (D = n / 11025 seconds) processed
\* with localTempo, the TempoMap has at most ceil(D / 0.7) points.
C17_MapLength ==
    (host = "tempo" /\ tempo.localTempo /\ tempo.samples > 0) =>
        Len(tempo.tempoMap) <= CeilDiv(10 * tempo.samples, 7 * kSampleRate)

\* The bound is met by the single point of a one-sample input, and the map
\* of the longest input has five points.
C17_Witness ==
    /\ host = "tempo"
    /\ tempo.localTempo
    /\ tempoResult = "returned"
    /\ pc = "exit"
    /\ tempo.samples = 1
    /\ Len(tempo.tempoMap) = 1
    /\ CeilDiv(10 * tempo.samples, 7 * kSampleRate) = 1

\* estimate has returned for an input of 5 seconds (55,125 samples) processed
\* with localTempo; silence is such an input, and whatever the tempo model
\* returns for it is among the rows drawn.
FiveSecondsReturned ==
    /\ host = "tempo"
    /\ tempo.samples = 5 * kSampleRate
    /\ tempo.localTempo
    /\ tempoResult = "returned"

\* C18 as stated: for 5 seconds of silence processed with localTempo,
\* estimate returns a global bpm in [20, 300] and a TempoMap of exactly one
\* point.
C18_SilenceOnePoint ==
    FiveSecondsReturned =>
        /\ tempo.bpm >= kTempoMinBpm
        /\ tempo.bpm <= kTempoMaxBpm
        /\ Len(tempo.tempoMap) = 1

\* C18, amended: the global bpm is in [20, 300] and the TempoMap has exactly
\* four points, one per local window, 1.486 s apart.
C18_SilenceFourPoints ==
    FiveSecondsReturned =>
        /\ tempo.bpm >= kTempoMinBpm
        /\ tempo.bpm <= kTempoMaxBpm
        /\ tempo.totalFrames = 108
        /\ Len(tempo.tempoMap) = 4
        /\ \A j \in 1..Len(tempo.tempoMap) :
               tempo.tempoMap[j].timeSeconds =
                   RoundedTime(j - 1, kLocalHopFrames * kStftHopLength)

\* The model returned the same row for every window, as it does for windows
\* that are all alike.
C18_Witness ==
    /\ FiveSecondsReturned
    /\ pc = "exit"
    /\ \A i \in 1..Len(tempo.localRaw) : tempo.localRaw[i] = tempo.localRaw[1]
    /\ Len(tempo.tempoMap) = 4
    /\ tempo.tempoMap[2].timeSeconds = 1486077

\* ------------------------------------------------------------------------
\* Properties of the parabolic interpolation
\* ------------------------------------------------------------------------
\* The quotient out equals c + (l - r) / (2 * (l - 2m + r)) held to
\* [c - 1, c + 1], the denominator l - 2m + r not being zero.
IsClampedVertex(out, c, l, m, r) ==
    IF Abs(l - r) <= Abs(2 * (l - 2 * m + r))
    THEN out.num * 2 * (l - 2 * m + r) = out.den * (c * 2 * (l - 2 * m + r) + (l - r))
    ELSE IF (l - r) * (l - 2 * m + r) > 0 THEN out.num = (c + 1) * out.den
    ELSE out.num = (c - 1) * out.den

Vector3(a, b, c) == [k \in 0..2 |-> IF k = 0 THEN a ELSE IF k = 1 THEN b ELSE c]

\* C19: interpolateArgmax(values, c) returns c + 0.5 * (l - r) / (l - 2m + r)
\* clamped to [c - 1, c + 1], and c itself when the denominator is zero or c
\* is the first or last index; on [0.1, 1.0, 0.1] it returns the centre
\* exactly and on [0.1, 0.5, 0.9] a value in [centre, centre + 1).
C19_InterpolateArgmax ==
    probe.fn = "interpolateArgmax" =>
        /\ probe.out.den > 0
        /\ IF probe.index = 0 \/ probe.index = Cardinality(DOMAIN probe.values) - 1
           THEN probe.out.num = probe.index * probe.out.den
           ELSE IF probe.values[probe.index - 1] - 2 * probe.values[probe.index]
                       + probe.values[probe.index + 1] = 0
           THEN probe.out.num = probe.index * probe.out.den
           ELSE IsClampedVertex(probe.out, probe.index, probe.values[probe.index - 1],
                                probe.values[probe.index], probe.values[probe.index + 1])
        /\ (probe.values = Vector3(10, 100, 10) /\ probe.index = 1 =>
               probe.out.num = probe.out.den)
        /\ (probe.values = Vector3(10, 50, 90) /\ probe.index \in {1, 2} =>
               /\ probe.out.num >= probe.index * probe.out.den
               /\ probe.out.num < (probe.index + 1) * probe.out.den)

\* A vertex a third of a class left of the centre has been computed.
C19_Witness ==
    /\ probe.fn = "interpolateArgmax"
    /\ probe.values = Vector3(90, 100, 50)
    /\ probe.index = 1
    /\ 3 * probe.out.num = 2 * probe.out.den

\* ------------------------------------------------------------------------
\* Properties of the diagnostics
\* ------------------------------------------------------------------------
\* A loop iteration of transcribeToMIDI is the iteration the code takes when
\* enabled() is `flag`: same frameInference call, same rows written, same
\* ring buffers, same next frame, same outcome.
LoopStepAsWith(flag) ==
    /\ WarmupZero => WarmupZeroWith(flag)
    /\ WarmupCqt => WarmupCqtWith(flag)
    /\ StreamInference => StreamInferenceWith(flag)
    /\ TailFlush => TailFlushWith(flag)

JniSucceeded ==
    /\ pcmRead = 2
    /\ result = "returned"
    /\ tempoResult = "returned"
    /\ outFile = "written"

\* C21: runTranscription returns null exactly when both PCM files were read,
\* both pipelines returned normally and the combined JSON was written; on
\* every other outcome it returns a non-null status string.
C21_StatusString ==
    (host = "jni" /\ pc \in {"exit", "crashed"}) =>
        /\ status # ""
        /\ status = "null" <=> JniSucceeded

\* ------------------------------------------------------------------------
\* Independence of invocations
\* ------------------------------------------------------------------------
\* A posteriorgram of n untouched rows of width w.
ZeroRows(n, w) == [i \in 1..n |-> Row(w, ZeroVec)]

\* Everything a transcription reads is as it is in the first transcription
\* of a freshly constructed instance given the same audio (mConcatArray apart,
\* which _concat fills before anything reads it).
AsOnFreshInstance ==
    /\ cnn = [CnnConstructed EXCEPT !.mConcatArray = cnn.mConcatArray]
    /\ mNumFrames = audio.frames
    /\ mContoursPG = ZeroRows(audio.frames, NUM_FREQ_IN)
    /\ mNotesPG = ZeroRows(audio.frames, NUM_FREQ_OUT)
    /\ mOnsetsPG = ZeroRows(audio.frames, NUM_FREQ_OUT)
    /\ mNoteEvents = <<>>
    /\ idx = 0

\* C22: a transcription on an instance that has transcribed other inputs
\* before runs as it does on a freshly constructed instance: at its first
\* frameInference call the instance is in the state of a fresh one, no
\* earlier transcription having written outside the memory it owns.
C22_Independent ==
    (pc \in Phases /\ calls = <<>>) => (AsOnFreshInstance /\ ~corrupt)

\* ------------------------------------------------------------------------
\* Properties of BasicPitchCNN
\* ------------------------------------------------------------------------
\* C23: the OnsetOutputNet input holds, for each note bin i in 0..87, the
\* NoteNet output of the current frame at i * 33 and, at i * 33 + 1 + k
\* (k in 0..31), element i * 32 + k of the OnsetInputNet output computed
\* depth - 1 frames earlier, the slot of the current frame having been written
\* before the read; no element of the previous frame's array is left.
C23_ConcatLayout ==
    probe.fn = "_concat" =>
        /\ DOMAIN probe.out = 0..(33 * NUM_FREQ_OUT - 1)
        /\ \A i \in 0..(NUM_FREQ_OUT - 1) :
              /\ probe.out[i * 33] = NoteFloat(i)
              /\ \A k \in 0..31 :
                    probe.out[i * 33 + 1 + k]
                       = OnsetInputFloat(mNumConcat2Stored - 1, i * 32 + k)

\* _concat() has run with the head on the last slot of the ring, so that the
\* slot read is slot 0.
C23_Witness ==
    /\ probe.fn = "_concat"
    /\ probe.concat2Idx = mNumConcat2Stored - 1
    /\ probe.out[33 * NUM_FREQ_OUT - 1] = OnsetInputFloat(mNumConcat2Stored - 1, 32 * NUM_FREQ_OUT - 1)

\* C24: each of the three heads lies in [0, depth) of its ring, and after k
\* successful frameInference calls since the last reset it equals k mod depth.
C24_HeadsWrap ==
    /\ cnn.mContourIdx \in 0..(mNumContourStored - 1)
    /\ cnn.mNoteIdx \in 0..(mNumNoteStored - 1)
    /\ cnn.mConcat2Idx \in 0..(mNumConcat2Stored - 1)
    /\ (pc \in Phases \/ calls # <<>>) =>
          /\ cnn.mContourIdx = Len(calls) % mNumContourStored
          /\ cnn.mNoteIdx = Len(calls) % mNumNoteStored
          /\ cnn.mConcat2Idx = Len(calls) % mNumConcat2Stored

\* Every head has wrapped at least once and the three heads differ from the
\* number of calls made.
C24_Witness ==
    /\ pc \in Phases
    /\ Len(calls) = 2 * mNumContourStored + 1
    /\ cnn.mContourIdx = 1
    /\ cnn.mNoteIdx = (2 * mNumContourStored + 1) % mNumNoteStored

\* ------------------------------------------------------------------------
\* Properties of the moving average
\* ------------------------------------------------------------------------
\* The sum of the elements of `values` at the indices lo..hi that exist.
RECURSIVE SumInRange(_, _, _)
SumInRange(values, lo, hi) ==
    IF lo > hi THEN 0
    ELSE (IF lo >= 1 /\ lo <= Len(values) THEN values[lo] ELSE 0)
         + SumInRange(values, lo + 1, hi)

OddWidth(windowSize) == IF windowSize % 2 = 0 THEN windowSize + 1 ELSE windowSize

\* C25: movingAverageSame returns a series as long as its input; with width 5
\* element i is the sum of the input elements i-2..i+2 that exist divided by
\* 5, at the boundaries too, so that a constant series v of at least 5
\* elements gives 3v/5 at both ends and 4v/5 next to them; an even width is
\* raised to the next odd number.
C25_MovingAverage ==
    probe.fn = "movingAverageSame" =>
        /\ Len(probe.out) = Len(probe.values)
        /\ \A i \in 1..Len(probe.values) :
              OddWidth(probe.windowSize) * probe.out[i]
                 = SumInRange(probe.values, i - OddWidth(probe.windowSize) \div 2,
                              i + OddWidth(probe.windowSize) \div 2)
        /\ (/\ probe.windowSize = 5
            /\ Len(probe.values) >= 5
            /\ \A i \in 1..Len(probe.values) : probe.values[i] = probe.values[1]) =>
              /\ 5 * probe.out[1] = 3 * probe.values[1]
              /\ 5 * probe.out[Len(probe.out)] = 3 * probe.values[1]
              /\ 5 * probe.out[2] = 4 * probe.values[1]
              /\ 5 * probe.out[Len(probe.out) - 1] = 4 * probe.values[1]
              /\ \A i \in 3..(Len(probe.out) - 2) : probe.out[i] = probe.values[1]

\* A constant series of five elements has been smoothed with width 5.
C25_Witness ==
    /\ probe.fn = "movingAverageSame"
    /\ probe.windowSize = 5
    /\ probe.values = <<210, 210, 210, 210, 210>>
    /\ probe.out = <<126, 168, 210, 168, 126>>

\* ------------------------------------------------------------------------
\* Properties of the indices of transcribeToMIDI
\* ------------------------------------------------------------------------
\* The posteriorgram row the next frameInference call of the running loop is
\* handed, and whether that call reads the CQT frame of the loop index.
RowOfNextCall == IF pc \in Warmups THEN 0 ELSE SizeSub(idx, mTotalLookahead)
NextCallReadsCqt == pc \in {"warmup_cqt", "stream_inference"}

\* C26: for every N >= 0 returned by the feature extractor, N < L and N = 0
\* included, every posteriorgram row index written and every CQT frame index
\* read during transcribeToMIDI lies in [0, N).
C26_IndicesInRange ==
    /\ pc \in Phases =>
          /\ RowOfNextCall >= 0 /\ RowOfNextCall < mNumFrames
          /\ NextCallReadsCqt => (idx >= 0 /\ idx < mNumFrames)
    /\ \A k \in DOMAIN calls :
          /\ calls[k].row >= 0 /\ calls[k].row < mNumFrames
          /\ calls[k].src < mNumFrames
    /\ ~corrupt
    /\ pc # "crashed"

\* ------------------------------------------------------------------------
\* Properties of the local tempo map
\* ------------------------------------------------------------------------
\* t microseconds is n * 32 * 512 / 11025 seconds rounded to 6 decimals: the
\* quotient is taken with numerator and denominator divided by 25.
IsLocalWindowTime(t, n) ==
    2 * Abs((t - n * ((kLocalHopFrames * kStftHopLength * (Micro \div 25))
                       \div (kSampleRate \div 25))) * (kSampleRate \div 25)
            - n * ((kLocalHopFrames * kStftHopLength * (Micro \div 25))
                       % (kSampleRate \div 25)))
       <= kSampleRate \div 25

\* C27: the local windows are 32 * 512 / 11025 s apart, which is at least
\* 0.7 s, so run compression drops nothing: when estimate returns with
\* localTempo on a mel tensor of T frames, the TempoMap has floor(T / 32) + 1
\* points, the one of window n at n * 32 * 512 / 11025 s rounded to 6
\* decimals and with the window's smoothed bpm.
C27_OnePointPerWindow ==
    /\ kLocalHopFrames * kStftHopLength * 1000
          >= (kLocalTempoMinTimeDelta \div 1000) * kSampleRate
    /\ (host = "tempo" /\ tempo.localTempo /\ tempoResult = "returned") =>
          /\ Len(tempo.tempoMap) = tempo.totalFrames \div kLocalHopFrames + 1
          /\ Len(tempo.tempoMap) = Len(tempo.localTempi)
          /\ \A n \in 1..Len(tempo.tempoMap) :
                /\ IsLocalWindowTime(tempo.tempoMap[n].timeSeconds, n - 1)
                /\ tempo.tempoMap[n].bpm = roundToDecimals(tempo.localTempi[n])

\* estimate has returned two points of the same bpm, 1.486077 s apart: a
\* compression on the bpm alone would have dropped the second.
C27_Witness ==
    /\ host = "tempo"
    /\ tempo.localTempo
    /\ tempoResult = "returned"
    /\ tempo.totalFrames = kLocalHopFrames
    /\ Len(tempo.tempoMap) = 2
    /\ tempo.tempoMap[2].timeSeconds = 1486077
    /\ tempo.tempoMap[2].bpm = tempo.tempoMap[1].bpm

\* ------------------------------------------------------------------------
\* Properties of the refined class index
\* ------------------------------------------------------------------------
\* The refined index is within half a class of the coarse one, and so are the
\* two bpm values.
WithinHalf ==
    /\ 2 * Abs(probe.finalIndex.num - probe.coarseIndex * probe.finalIndex.den)
          <= probe.finalIndex.den
    /\ 2 * Abs(probe.bpmFine - probe.bpmCoarse) <= QMicro

\* The refined index is a class index of the vector.
InsideClasses ==
    /\ probe.finalIndex.num >= 0
    /\ probe.finalIndex.num <= (Cardinality(DOMAIN probe.values) - 1) * probe.finalIndex.den

\* The coarse index is inside the vector and one of its neighbours is NaN.
NaNNeighbour ==
    /\ probe.coarseIndex > 0
    /\ probe.coarseIndex < Cardinality(DOMAIN probe.values) - 1
    /\ NaN \in {probe.values[probe.coarseIndex - 1], probe.values[probe.coarseIndex + 1]}

C29_FailedCallChangesNothing ==
    [][(pc \in Phases /\ what' = OutputSizeMsg) =>
          /\ cnn' = cnn
          /\ mContoursPG' = mContoursPG
          /\ mNotesPG' = mNotesPG
          /\ mOnsetsPG' = mOnsetsPG
          /\ corrupt' = corrupt
          /\ calls' = calls]_vars

\* A call has failed the size check after a call that succeeded: the input
\* array still holds the input of the last call that succeeded, and the
\* heads stand where that call left them.
C29_Witness ==
    /\ what = OutputSizeMsg
    /\ result = "thrown"
    /\ Len(calls) > 0
    /\ cnn.mInputArray = calls[Len(calls)].input
    /\ cnn.mInputArray # ZeroVec
    /\ cnn.mNoteIdx = Len(calls) % mNumNoteStored

\* ------------------------------------------------------------------------
\* C30
\* ------------------------------------------------------------------------
\* The bpm estimate sets from the averaged global prediction and the
\* interpolate option alone.
GlobalBpm(averaged, interpolate) ==
    classIndexToBpm(IF interpolate
                    THEN Fixed(interpolateArgmax(averaged, argmax(averaged)))
                    ELSE argmax(averaged) * QMicro)

\* C30: localTempo affects only the tempo map.  Once the global model has
\* run, the bpm of the result is the one the averaged global prediction and
\* the interpolate option give, with localTempo true and with localTempo
\* false, and it stays so through the local stage; without localTempo the
\* tempo map is empty and the model runs at most once; with localTempo a
\* result that is returned has a non-empty tempo map whose first point is at
\* time 0; the local model run happens only after the global one.
C30_LocalTempoOnlyMap ==
    host = "tempo" =>
        /\ tempo.modelRuns >= 1 =>
              /\ tempo.globalWindows >= 1
              /\ tempo.bpm = GlobalBpm(tempo.averaged, tempo.interpolate)
        /\ ~tempo.localTempo =>
              /\ tempo.tempoMap = <<>>
              /\ tempo.modelRuns <= 1
        /\ (tempo.localTempo /\ tempoResult = "returned") =>
              /\ tempo.tempoMap # <<>>
              /\ tempo.tempoMap[1].timeSeconds = 0
              /\ tempo.modelRuns = 2
        /\ pc = "tempo_local_run" => tempo.modelRuns = 1
        /\ tempo.modelRuns = 2 => tempo.localTempo

\* estimate has returned with localTempo and interpolate set, after both
\* model runs, a bpm other than the default and a tempo map of two points.
C30_Witness ==
    /\ host = "tempo"
    /\ tempoResult = "returned"
    /\ tempo.localTempo
    /\ tempo.interpolate
    /\ tempo.modelRuns = 2
    /\ tempo.bpm # 120 * QMicro
    /\ Len(tempo.tempoMap) = 2
    /\ tempo.tempoMap[1].bpm # tempo.bpm
====
